---- MODULE Spec2Model ----
(***************************************************************************)
(* Weather analytics backend: the date-partitioned storage adapters        *)
(* (src/backend/storage.py) and the query layer built on them              *)
(* (src/backend/main.py).                                                  *)
(*                                                                         *)
(* Representation                                                          *)
(*   - a Python dict is a function whose DOMAIN is the set of its keys;    *)
(*     the empty dict is <<>>;                                             *)
(*   - an Optional value is a set: {} is None, {v} is the value v;         *)
(*   - a str is a sequence of characters; the five characters of the       *)
(*     extension ".jsonl" are one character of the alphabet, so that       *)
(*     endswith(".jsonl") and replace(".jsonl", "") are computed on it;    *)
(*   - a point in time is a number of ticks, TicksPerDay ticks a day;      *)
(*   - a float is a rational number [n, d] in lowest terms.                *)
(***************************************************************************)
EXTENDS Integers, Sequences, FiniteSets, TLC

VARIABLES
    backend,    \* "local" | "hdfs": the adapter bound to main.storage
    localFs,    \* the local data directory <base_dir>/apps/weather
    hdfsFs,     \* the remote filesystem under the client root
    now,        \* the wall clock, in ticks (datetime.now())
    resp,       \* the request in flight: its operation, arguments and result
    handlers,   \* the concurrent write_record calls of the race specification
    mirror,     \* a second store and the writes replayed on both stores
    env         \* what the process runs on: the hdfs library, the namenode
                \* and the local disk

vars == <<backend, localFs, hdfsFs, now, resp, handlers, mirror, env>>

----------------------------------------------------------------------------
(* Bounds of the model *)

TicksPerDay == 2
MaxWrites == 3
MaxNow == 5
MaxDamaged == 1
MaxLen == 3
MaxPeriods == 2

----------------------------------------------------------------------------
(* Strings *)

JSONL == ".jsonl"

CharCode(c) ==
    CASE c = JSONL -> 46        \* ord('.')
      [] c = "A" -> 65
      [] c = "a" -> 97
      [] c = "b" -> 98
      [] c = "unknown" -> 117   \* ord('u'): the word "unknown", kept whole

\* str.lower()
lower(s) == [i \in 1..Len(s) |-> IF s[i] = "A" THEN "a" ELSE s[i]]

\* str.endswith(".jsonl")
endswith_jsonl(s) == Len(s) > 0 /\ s[Len(s)] = JSONL

\* str.replace(".jsonl", ""): every occurrence is removed, not only the suffix
replace_jsonl(s) == SelectSeq(s, LAMBDA c : c # JSONL)

\* Python's order on str: lexicographic by code point
RECURSIVE StrLess(_, _)
StrLess(s, t) ==
    IF Len(t) = 0 THEN FALSE
    ELSE IF Len(s) = 0 THEN TRUE
    ELSE IF CharCode(Head(s)) # CharCode(Head(t))
         THEN CharCode(Head(s)) < CharCode(Head(t))
    ELSE StrLess(Tail(s), Tail(t))

\* a listing that is not sorted: the strings in descending order
RECURSIVE unsorted(_)
unsorted(S) ==
    IF S = {} THEN <<>>
    ELSE LET m == CHOOSE x \in S : \A y \in S \ {x} : StrLess(y, x)
         IN <<m>> \o unsorted(S \ {m})

\* sorted(list(S)) for a set of str
RECURSIVE sorted(_)
sorted(S) ==
    IF S = {} THEN <<>>
    ELSE LET m == CHOOSE x \in S : \A y \in S \ {x} : StrLess(x, y)
         IN <<m>> \o sorted(S \ {m})

----------------------------------------------------------------------------
(* Sequences *)

Range(s) == {s[i] : i \in 1..Len(s)}

Perms(S) == {p \in [1..Cardinality(S) -> S] : Range(p) = S}

RECURSIVE Concat(_)
Concat(ss) == IF Len(ss) = 0 THEN <<>> ELSE Head(ss) \o Concat(Tail(ss))

----------------------------------------------------------------------------
(* Records and timestamps *)

\* dict.get(key, default)
get(d, key, default) == IF key \in DOMAIN d THEN d[key] ELSE default

\* A timestamp string: "naive" is YYYY-MM-DDTHH:MM, "aware" carries a Z or
\* a UTC offset, "bad" is not an ISO date-time.
Naive(t) == [kind |-> "naive", t |-> t]
Aware(t) == [kind |-> "aware", t |-> t]
BadTs == [kind |-> "bad", t |-> 0]

\* datetime.fromisoformat(ts.replace("Z", "+00:00")): {} when it raises
fromisoformat(ts) ==
    IF ts.kind = "bad" THEN {} ELSE {[aware |-> ts.kind = "aware", t |-> ts.t]}

\* dt.strftime("%Y-%m-%d") / dt.date(): the calendar day of the date-time
DateOf(t) == t \div TicksPerDay

----------------------------------------------------------------------------
(* Lines of a partition file *)

\* json.dumps(record, default=str) + "\n": the records of the model hold
\* JSON-native values only (str, number, null)
json_dumps(record) == [kind |-> "json", obj |-> record]

Garbage == [kind |-> "garbage"]     \* a line that is not JSON
BadBytes == [kind |-> "badbytes"]   \* a line that is not UTF-8

\* json.loads(line.strip()): {} when it raises
json_loads(line) == IF line.kind = "json" THEN {line.obj} ELSE {}

----------------------------------------------------------------------------
(* A filesystem tree below ingest/: the date= directories and their files *)

\* a data directory: whether <root>/ingest exists, its date= directories
\* and the lines of its files
EmptyFs == [ingest |-> FALSE, dirs |-> {}, files |-> <<>>]

\* the hdfs package is importable, the namenode answers, the local disk
\* works, and neither the directory $DATA_DIR names nor /app/data exists
NormalEnv ==
    [library |-> TRUE, hdfs |-> "up", local |-> "up",
     data_dir |-> EmptyFs, app_data |-> EmptyFs]

PathsOf(fs) == DOMAIN fs.files

\* the names os.listdir / client.list return for the partition of one day
NamesIn(fs, day) == {p[2] : p \in {q \in PathsOf(fs) : q[1] = day}}

\* open(path, "a").write(line) / client.write(path, append=True)
AppendLine(fs, path, line) ==
    [fs EXCEPT !.files =
        IF path \in DOMAIN fs.files
        THEN [fs.files EXCEPT ![path] = Append(@, line)]
        ELSE (path :> <<line>>) @@ fs.files]

\* os.makedirs(dir, exist_ok=True) / client.makedirs(dir)
makedirs(fs, day) == [fs EXCEPT !.ingest = TRUE, !.dirs = @ \cup {day}]

----------------------------------------------------------------------------
(* Reading one partition file: the loop body shared by both adapters *)

IsSome(opt) == opt # {}
The(opt) == CHOOSE x \in opt : TRUE

\* a since filter that drops nothing
never_dropped(record, since) == FALSE

\* a since filter that also drops the records it cannot date
dropped_unless_dated(record, since) ==
    /\ since # {}
    /\ \/ "timestamp" \notin DOMAIN record
       \/ record["timestamp"].kind = "bad"
       \/ record["timestamp"].kind = "naive" /\ record["timestamp"].t < CHOOSE s \in since : TRUE

\* "if since:" ... "if record_dt < since: continue": TRUE when the record is
\* dropped. A missing or unparsable timestamp skips the comparison; an aware
\* date-time compared with the naive since raises TypeError, which the
\* "except Exception: pass" around the comparison swallows.
dropped_by_since(record, since) ==
    /\ IsSome(since)
    /\ "timestamp" \in DOMAIN record
    /\ LET record_dt == fromisoformat(record["timestamp"])
       IN /\ IsSome(record_dt)
          /\ ~The(record_dt).aware
          /\ The(record_dt).t < The(since)

\* one iteration of "for line in f": the records the line adds
scan_line(line, since) ==
    LET parsed == json_loads(line)
    IN IF parsed = {} THEN <<>>                         \* except: continue
       ELSE IF DOMAIN The(parsed) = {} THEN <<>>        \* if record:
       ELSE IF dropped_by_since(The(parsed), since) THEN <<>>
       ELSE <<The(parsed)>>

FirstBad(lines) ==
    LET bad == {i \in 1..Len(lines) : lines[i].kind = "badbytes"}
    IN IF bad = {} THEN 0 ELSE CHOOSE i \in bad : \A j \in bad : i <= j

\* "with open(file_path) as f: for line in f": the text layer decodes the
\* file chunk by chunk, so bytes that are not UTF-8 raise UnicodeDecodeError
\* out of the iteration itself, after `decoded` earlier lines were delivered
\* (none when the file fits in one chunk).
scan_file(lines, since, decoded) ==
    LET bad == FirstBad(lines)
        n == IF bad = 0 THEN Len(lines)
             ELSE IF decoded < bad - 1 THEN decoded ELSE bad - 1
    IN [records |-> Concat([i \in 1..n |-> scan_line(lines[i], since)]),
        failed |-> bad # 0]

\* "if city and file_city != city.lower(): continue"
skipped_by_city(filename, city) ==
    /\ IsSome(city)
    /\ The(city) # <<>>
    /\ replace_jsonl(filename) # lower(The(city))

\* "for filename in os.listdir(partition)" inside the partition's try: an
\* exception raised while a file is read ends the whole partition
RECURSIVE scan_partition(_, _, _, _, _, _)
scan_partition(fs, day, names, city, since, decoded) ==
    IF Len(names) = 0 THEN <<>>
    ELSE IF \/ ~endswith_jsonl(Head(names))
            \/ skipped_by_city(Head(names), city)
         THEN scan_partition(fs, day, Tail(names), city, since, decoded)
    ELSE LET r == scan_file(fs.files[<<day, Head(names)>>], since, decoded)
         IN IF r.failed THEN r.records                  \* except: continue
            ELSE r.records
                 \o scan_partition(fs, day, Tail(names), city, since, decoded)

\* The order in which the directories are listed is the filesystem's: a
\* listing fixes the order of the date= directories, the order of the file
\* names and the number of lines decoded before a decoding error.
MaxDecoded(fs) ==
    LET before == {FirstBad(fs.files[p]) - 1 : p \in PathsOf(fs)} \ {-1}
    IN IF before = {} THEN 0 ELSE CHOOSE m \in before : \A k \in before : k <= m

Listings(fs) ==
    [days : Perms(fs.dirs),
     names : Perms({p[2] : p \in PathsOf(fs)}),
     decoded : 0..MaxDecoded(fs)]

ListDir(fs, day, listing) ==
    SelectSeq(listing.names, LAMBDA n : n \in NamesIn(fs, day))

scan_partitions(fs, city, since, listing) ==
    Concat([i \in 1..Len(listing.days) |->
        scan_partition(fs, listing.days[i], ListDir(fs, listing.days[i], listing),
                       city, since, listing.decoded)])

\* the city keys of the file names of every partition
cities_of(fs) ==
    {lower(replace_jsonl(p[2])) : p \in {q \in PathsOf(fs) : endswith_jsonl(q[2])}}
        \ {<<>>}                                        \* if city:

----------------------------------------------------------------------------
(* LocalAdapter *)

\* a partition named after the day of the write
partition_of_wall_clock(record, clock) == DateOf(clock)

Local_get_partition_path(record, clock) ==
    LET timestamp_str == get(record, "timestamp", Naive(clock))
        dt == fromisoformat(timestamp_str)
    IN IF dt = {} THEN DateOf(clock) ELSE DateOf(The(dt).t)

Local_get_file_path(record, clock) ==
    LET partition == Local_get_partition_path(record, clock)
        city == lower(get(record, "city", <<"unknown">>))
    IN <<partition, city \o <<JSONL>>>>

Local_write_record(fs, record, clock) ==
    LET file_path == Local_get_file_path(record, clock)
    IN AppendLine(makedirs(fs, file_path[1]), file_path, json_dumps(record))

Local_read_records(fs, city, since, listing) ==
    IF ~fs.ingest THEN <<>>              \* not os.path.exists(base_partition)
    ELSE scan_partitions(fs, city, since, listing)

Local_list_cities(fs) ==
    IF ~fs.ingest THEN <<>> ELSE sorted(cities_of(fs))

----------------------------------------------------------------------------
(* HDFSAdapter and the WebHDFS client calls it makes *)

\* client.status(path, strict=False) on a partition directory / on a file
client_status_dir(fs, day) == day \in fs.dirs
client_status_file(fs, path) == path \in DOMAIN fs.files

\* client.write(path, data, overwrite=True): creates the file, replacing
\* what it held
client_write_overwrite(fs, path, line) ==
    [ingest |-> TRUE,
     dirs |-> fs.dirs \cup {path[1]},
     files |-> (path :> <<line>>) @@ fs.files]

\* client.write(path, data, append=True)
client_write_append(fs, path, line) == AppendLine(fs, path, line)

HDFS_get_partition_path(record, clock) ==
    LET timestamp_str == get(record, "timestamp", Naive(clock))
        dt == fromisoformat(timestamp_str)
    IN IF dt = {} THEN DateOf(clock) ELSE DateOf(The(dt).t)

\* a file named after the city as the record spells it
HDFS_file_path_case_kept(record, clock) ==
    <<HDFS_get_partition_path(record, clock),
      get(record, "city", <<"unknown">>) \o <<JSONL>>>>

HDFS_get_file_path(record, clock) ==
    LET partition == HDFS_get_partition_path(record, clock)
        city == lower(get(record, "city", <<"unknown">>))
    IN <<partition, city \o <<JSONL>>>>

\* a write that always creates the file anew
HDFS_write_record_overwriting(fs, record, clock, later) ==
    client_write_overwrite(fs, HDFS_get_file_path(record, clock), json_dumps(record))

\* write_record reads the clock twice: for the file path (clock), then for
\* the partition directory it creates (later); the partition of a record
\* whose timestamp is missing or does not parse is the day of that reading
HDFS_write_record(fs, record, clock, later) ==
    LET file_path == HDFS_get_file_path(record, clock)
        line == json_dumps(record)
        partition == HDFS_get_partition_path(record, later)
        fs1 == IF ~client_status_dir(fs, partition)
               THEN makedirs(fs, partition) ELSE fs
    IN IF client_status_file(fs1, file_path)
       THEN client_write_append(fs1, file_path, line)
       ELSE client_write_overwrite(fs1, file_path, line)

HDFS_read_records(fs, city, since, listing) ==
    IF ~fs.ingest THEN <<>>              \* not client.status(base_partition)
    ELSE scan_partitions(fs, city, since, listing)

\* possible_paths: the data directory next to backend/, the directory
\* $DATA_DIR names (/app/data when it is not set), and /app/data
possible_paths(local, e) == <<local, e.data_dir, e.app_data>>

\* what one request sees fail while it lists a local data directory: nothing;
\* os.listdir of the ingest directory; os.listdir of the partition of one
\* day, after the partitions of the days in 'before' have been listed
NoLocalFault == [kind |-> "none", day |-> 0, before |-> {}]

LocalFaults(fs) ==
    {NoLocalFault, [kind |-> "list_root", day |-> 0, before |-> {}]}
        \cup UNION {{[kind |-> "list_partition", day |-> d, before |-> b] :
                        b \in SUBSET (fs.dirs \ {d})} : d \in fs.dirs}

NoLocalFaults == <<NoLocalFault, NoLocalFault, NoLocalFault>>

\* the cities one candidate directory adds before its listing ends or raises
cities_scanned(fs, fault) ==
    CASE fault.kind = "none" -> cities_of(fs)
      [] fault.kind = "list_root" -> {}
      [] fault.kind = "list_partition" ->
            {lower(replace_jsonl(p[2])) :
                p \in {q \in PathsOf(fs) : endswith_jsonl(q[2]) /\ q[1] \in fault.before}}
              \ {<<>>}

\* "for local_dir in possible_paths": a directory without ingest directory
\* is passed over; the file names of one that has it are added; a listing
\* that raises goes on to the next directory ("except Exception: continue");
\* one that ends stops the loop once any city is known ("if cities: break")
RECURSIVE local_fallback(_, _, _)
local_fallback(cities, paths, faults) ==
    IF Len(paths) = 0 THEN [cities |-> cities, local_read |-> FALSE]
    ELSE IF ~Head(paths).ingest                   \* not os.path.exists(local_base)
    THEN local_fallback(cities, Tail(paths), Tail(faults))
    ELSE LET found == cities \cup cities_scanned(Head(paths), Head(faults))
         IN IF Head(faults).kind = "none" /\ found # {}
            THEN [cities |-> found, local_read |-> TRUE]
            ELSE [local_fallback(found, Tail(paths), Tail(faults))
                    EXCEPT !.local_read = TRUE]

\* the HDFS file names, then "always check local filesystem as fallback"
HDFS_list_cities(fs, paths, faults) ==
    sorted(local_fallback(cities_of(fs), paths, faults).cities)

----------------------------------------------------------------------------
(* The storage service, one request at a time *)

Idle == [op |-> "idle"]

\* the records the callers write
StorageRecords ==
    { [city |-> <<"a">>, timestamp |-> Naive(0), tempC |-> {1}],
      [city |-> <<"A">>, timestamp |-> Naive(TicksPerDay), tempC |-> {2}],
      [city |-> <<"b">>, timestamp |-> Aware(0), tempC |-> {}],
      [city |-> <<"a", JSONL>>, timestamp |-> Naive(0), tempC |-> {1}],
      [timestamp |-> BadTs, tempC |-> {3}],
      [city |-> <<>>, tempC |-> {1}],
      <<>> }

\* the city arguments of read_records: None, or the city of a record
CityArgs == {{}} \cup {{r["city"]} : r \in {q \in StorageRecords : "city" \in DOMAIN q}}

\* the since arguments of read_records: None, or a naive date-time
SinceArgs == {{}, {TicksPerDay}}

ActiveFs == IF backend = "hdfs" THEN hdfsFs ELSE localFs

RECURSIVE SumLen(_, _)
SumLen(files, paths) ==
    IF paths = {} THEN 0
    ELSE LET p == CHOOSE q \in paths : TRUE
         IN Len(files[p]) + SumLen(files, paths \ {p})

TotalLines(fs) == SumLen(fs.files, PathsOf(fs))

\* the clock at the second reading of a write_record call that read it at
\* 'clock' first: the same tick, or the next one when that is another day
\* for the HDFS adapter (a tick that stays in the day is the Tick after the
\* call; the LocalAdapter derives the directory from the file path)
Laters(clock) ==
    {clock} \cup (IF backend # "local" /\ clock < MaxNow /\ DateOf(clock + 1) # DateOf(clock)
                  THEN {clock + 1} ELSE {})

\* storage.write_record(record)
WriteRecord(record) ==
    /\ resp = Idle
    /\ TotalLines(ActiveFs) < MaxWrites
    /\ \E later \in Laters(now) :
          /\ IF backend = "hdfs"
             THEN /\ hdfsFs' = HDFS_write_record(hdfsFs, record, now, later)
                  /\ UNCHANGED localFs
             ELSE /\ localFs' = Local_write_record(localFs, record, now)
                  /\ UNCHANGED hdfsFs
          /\ now' = later
          /\ resp' = [op |-> "write_record", record |-> record, clock |-> now,
                      later |-> later,
                      before |-> [localFs |-> localFs, hdfsFs |-> hdfsFs]]
    /\ UNCHANGED <<backend, handlers, mirror, env>>

\* storage.read_records(city, since)
ReadRecords(city, since) ==
    /\ resp = Idle
    /\ \E listing \in Listings(ActiveFs) :
          resp' = [op |-> "read_records", city |-> city, since |-> since,
                   records |-> IF backend = "hdfs"
                               THEN HDFS_read_records(hdfsFs, city, since, listing)
                               ELSE Local_read_records(localFs, city, since, listing)]
    /\ UNCHANGED <<backend, localFs, hdfsFs, now, handlers, mirror, env>>

\* storage.list_cities()
ListCities ==
    /\ resp = Idle
    /\ resp' = [op |-> "list_cities",
                cities |-> IF backend = "hdfs"
                           THEN HDFS_list_cities(hdfsFs, possible_paths(localFs, env), NoLocalFaults)
                           ELSE Local_list_cities(localFs)]
    /\ UNCHANGED <<backend, localFs, hdfsFs, now, handlers, mirror, env>>

\* the response is delivered; the next request may start
Return ==
    /\ resp # Idle
    /\ resp' = Idle
    /\ UNCHANGED <<backend, localFs, hdfsFs, now, handlers, mirror, env>>

\* time passes
Tick ==
    /\ resp = Idle
    /\ now < MaxNow
    /\ now' = now + 1
    /\ UNCHANGED <<backend, localFs, hdfsFs, resp, handlers, mirror, env>>

NoHandlers == <<>>
NoMirror == [fs |-> EmptyFs, writes |-> <<>>, order |-> <<>>, done |-> 0]

\* get_storage_adapter() has returned one of the two adapters over an empty
\* store; under HDFS the local data directory may hold files of an earlier
\* run that fell back to local storage.
LegacyFs ==
    Local_write_record(EmptyFs, [city |-> <<"b">>, timestamp |-> Naive(0), tempC |-> {2}], 0)

\* the files a mounted data directory holds: one record without a city
MountedFs ==
    Local_write_record(EmptyFs, [timestamp |-> Naive(0), tempC |-> {3}], 0)

\* a data directory whose ingest directory holds no date= directory
EmptyIngestFs == [EmptyFs EXCEPT !.ingest = TRUE]

\* what the directory $DATA_DIR names and /app/data hold: neither exists;
\* DATA_DIR is not set and /app/data is the mounted directory; DATA_DIR names
\* a directory without ingest directory, or one whose ingest directory is
\* empty, and /app/data is the mounted one
DataDirs ==
    { [data_dir |-> EmptyFs, app_data |-> EmptyFs],
      [data_dir |-> MountedFs, app_data |-> MountedFs],
      [data_dir |-> EmptyFs, app_data |-> MountedFs],
      [data_dir |-> EmptyIngestFs, app_data |-> MountedFs] }

\* the environments of an adapter of the given kind; the LocalAdapter never
\* looks at the other data directories
Envs(kind) ==
    IF kind = "hdfs"
    THEN {[NormalEnv EXCEPT !.data_dir = d.data_dir, !.app_data = d.app_data] : d \in DataDirs}
    ELSE {NormalEnv}

Init ==
    /\ backend \in {"local", "hdfs"}
    /\ env \in Envs(backend)
    /\ hdfsFs = EmptyFs
    /\ localFs \in (IF backend = "hdfs" THEN {EmptyFs, LegacyFs} ELSE {EmptyFs})
    /\ now \in {TicksPerDay, MaxNow}
    /\ resp = Idle
    /\ handlers = NoHandlers
    /\ mirror = NoMirror

Next ==
    \/ \E record \in StorageRecords : WriteRecord(record)
    \/ \E city \in CityArgs, since \in SinceArgs : ReadRecords(city, since)
    \/ ListCities
    \/ Return
    \/ Tick

Spec == Init /\ [][Next]_vars

----------------------------------------------------------------------------
(* Claims on the sequential storage service *)

\* the records whose JSON line a store holds
StoredRecords(fs) ==
    UNION {UNION {json_loads(fs.files[p][i]) : i \in 1..Len(fs.files[p])} : p \in PathsOf(fs)}

\* read_records(city=r.city): None when the record has no city
CityArg(record) == IF "city" \in DOMAIN record THEN {record["city"]} ELSE {}

\* C1: write_record(r), for a record r with at least one field, followed by
\* read_records(city=r.city) without a since filter returns a collection
\* that contains a record equal to r: every read without since returns every
\* stored non-empty record whose city is the city asked for.
C1_WriteThenReadReturnsRecord ==
    (resp.op = "read_records" /\ resp.since = {}) =>
        \A r \in StoredRecords(ActiveFs) :
            (DOMAIN r # {} /\ CityArg(r) = resp.city) => r \in Range(resp.records)

\* C2: every write_record call, on either backend, appends exactly one line
\* to exactly one partition file, leaves every line already present in every
\* file unchanged and in the same order, and no file shrinks or disappears;
\* an identical record already stored is kept and the new copy is added.
C2_WriteAppendsOneLine ==
    resp.op = "write_record" =>
        LET before == IF backend = "hdfs" THEN resp.before.hdfsFs
                      ELSE resp.before.localFs
            idle == IF backend = "hdfs" THEN resp.before.localFs
                    ELSE resp.before.hdfsFs
            after == ActiveFs
            line == json_dumps(resp.record)
            old(p) == IF p \in PathsOf(before) THEN before.files[p] ELSE <<>>
        IN /\ PathsOf(before) \subseteq PathsOf(after)
           /\ \E p \in PathsOf(after) :
                /\ after.files[p] = old(p) \o <<line>>
                /\ \A q \in PathsOf(after) \ {p} :
                      q \in PathsOf(before) /\ after.files[q] = before.files[q]
           /\ idle = (IF backend = "hdfs" THEN localFs ELSE hdfsFs)

\* a write on the remote backend of a record whose identical copy is already
\* in the partition file: the file now holds both copies
C2_Witness ==
    /\ resp.op = "write_record"
    /\ backend = "hdfs"
    /\ LET p == HDFS_get_file_path(resp.record, resp.clock)
       IN /\ p \in PathsOf(resp.before.hdfsFs)
          /\ json_dumps(resp.record) \in Range(resp.before.hdfsFs.files[p])
          /\ Len(hdfsFs.files[p]) >= 2

----------------------------------------------------------------------------
(* Two request handlers in HDFSAdapter.write_record at the same time.       *)
(* Every call of the WebHDFS client is one atomic step; what a handler      *)
(* learnt from a status call is in its program counter.                     *)

Handlers == {1, 2}

RaceRecords ==
    { [city |-> <<"a">>, timestamp |-> Naive(0), tempC |-> {1}],
      [city |-> <<"a">>, timestamp |-> Naive(1), tempC |-> {2}],
      [city |-> <<"A">>, timestamp |-> Naive(0), tempC |-> {3}],
      [city |-> <<"b">>, timestamp |-> Naive(0), tempC |-> {1}],
      [city |-> <<"a">>, timestamp |-> Naive(TicksPerDay), tempC |-> {1}] }

\* the remote store before the two calls: empty, or the partition file of
\* city a on day 0 is there already
RaceSeedFs ==
    HDFS_write_record(EmptyFs, [city |-> <<"a">>, timestamp |-> Naive(0), tempC |-> {0}], 0, 0)

RacePath(h) == HDFS_get_file_path(handlers[h].record, now)

\* "if not self.client.status(partition, strict=False):"
StatusPartition(h) ==
    /\ handlers[h].pc = "start"
    /\ handlers' = [handlers EXCEPT ![h].pc =
            IF client_status_dir(hdfsFs, HDFS_get_partition_path(handlers[h].record, now))
            THEN "status_file" ELSE "makedirs"]
    /\ UNCHANGED <<backend, localFs, hdfsFs, now, resp, mirror, env>>

\* "self.client.makedirs(partition)"
Makedirs(h) ==
    /\ handlers[h].pc = "makedirs"
    /\ hdfsFs' = makedirs(hdfsFs, HDFS_get_partition_path(handlers[h].record, now))
    /\ handlers' = [handlers EXCEPT ![h].pc = "status_file"]
    /\ UNCHANGED <<backend, localFs, now, resp, mirror, env>>

\* "if self.client.status(file_path, strict=False):"
StatusFile(h) ==
    /\ handlers[h].pc = "status_file"
    /\ handlers' = [handlers EXCEPT ![h].pc =
            IF client_status_file(hdfsFs, RacePath(h)) THEN "append" ELSE "create"]
    /\ UNCHANGED <<backend, localFs, hdfsFs, now, resp, mirror, env>>

\* "self.client.write(file_path, data=..., append=True)"
WriteAppend(h) ==
    /\ handlers[h].pc = "append"
    /\ hdfsFs' = client_write_append(hdfsFs, RacePath(h), json_dumps(handlers[h].record))
    /\ handlers' = [handlers EXCEPT ![h].pc = "done"]
    /\ UNCHANGED <<backend, localFs, now, resp, mirror, env>>

\* "self.client.write(file_path, data=..., overwrite=True)"
WriteCreate(h) ==
    /\ handlers[h].pc = "create"
    /\ hdfsFs' = client_write_overwrite(hdfsFs, RacePath(h), json_dumps(handlers[h].record))
    /\ handlers' = [handlers EXCEPT ![h].pc = "done"]
    /\ UNCHANGED <<backend, localFs, now, resp, mirror, env>>

InitRace ==
    /\ env = NormalEnv
    /\ backend = "hdfs"
    /\ localFs = EmptyFs
    /\ hdfsFs \in {EmptyFs, RaceSeedFs}
    /\ now = MaxNow
    /\ resp = [op |-> "race", before |-> hdfsFs]
    /\ handlers \in [Handlers -> [pc : {"start"}, record : RaceRecords]]
    /\ mirror = NoMirror

NextRace ==
    \E h \in Handlers :
        \/ StatusPartition(h)
        \/ Makedirs(h)
        \/ StatusFile(h)
        \/ WriteAppend(h)
        \/ WriteCreate(h)

SpecRace == InitRace /\ [][NextRace]_vars

Count(seq, x) == Cardinality({i \in 1..Len(seq) : seq[i] = x})

\* C3: two handlers run write_record at the same time on the remote backend
\* for the same partition file, which does not exist yet; once both calls
\* have returned, the file holds the line of each of them.
C3_ConcurrentWritesKeepBothLines ==
    ( /\ \A h \in Handlers : handlers[h].pc = "done"
      /\ RacePath(1) = RacePath(2)
      /\ RacePath(1) \notin PathsOf(resp.before) )
    => \A h \in Handlers :
          Count(hdfsFs.files[RacePath(h)], json_dumps(handlers[h].record))
            >= Cardinality({g \in Handlers : handlers[g].record = handlers[h].record})

----------------------------------------------------------------------------
(* Two stores of the same backend receive the same write_record calls, the  *)
(* second one in another order and one day later.                           *)

OrderRecords ==
    { [city |-> <<"a">>, timestamp |-> Naive(0), tempC |-> {1}],
      [city |-> <<"A">>, timestamp |-> Naive(TicksPerDay), tempC |-> {2}],
      [city |-> <<"a", JSONL>>, timestamp |-> Aware(0), tempC |-> {}],
      [timestamp |-> BadTs, tempC |-> {3}] }

list_cities(fs) ==
    IF backend = "hdfs"
    THEN HDFS_list_cities(fs, possible_paths(localFs, env), NoLocalFaults)
    ELSE Local_list_cities(fs)

write_record(fs, record, clock, later) ==
    IF backend = "hdfs" THEN HDFS_write_record(fs, record, clock, later)
    ELSE Local_write_record(fs, record, clock)

\* the next write of the sequence on the first store, the next write of the
\* permuted sequence on the second
ReplayWrite ==
    /\ resp = Idle
    /\ mirror.done < Len(mirror.writes)
    /\ \E later \in Laters(now) :
          LET i == mirror.done + 1
          IN /\ IF backend = "hdfs"
                THEN /\ hdfsFs' = write_record(hdfsFs, mirror.writes[i], now, later)
                     /\ UNCHANGED localFs
                ELSE /\ localFs' = write_record(localFs, mirror.writes[i], now, later)
                     /\ UNCHANGED hdfsFs
             /\ mirror' = [mirror EXCEPT
                   !.fs = write_record(@, mirror.writes[mirror.order[i]],
                                       now + TicksPerDay, later + TicksPerDay),
                   !.done = i]
             /\ now' = later
    /\ UNCHANGED <<backend, resp, handlers, env>>

\* list_cities() on both stores
ListBoth ==
    /\ resp = Idle
    /\ resp' = [op |-> "list_cities", cities |-> list_cities(ActiveFs),
                mirrored |-> list_cities(mirror.fs)]
    /\ UNCHANGED <<backend, localFs, hdfsFs, now, handlers, mirror, env>>

\* list_cities() once more, with no write in between
ListCitiesAgain ==
    /\ resp.op = "list_cities"
    /\ "previous" \notin DOMAIN resp
    /\ resp' = [op |-> "list_cities", cities |-> list_cities(ActiveFs),
                mirrored |-> list_cities(mirror.fs), previous |-> resp.cities]
    /\ UNCHANGED <<backend, localFs, hdfsFs, now, handlers, mirror, env>>

InitOrder ==
    /\ backend \in {"local", "hdfs"}
    /\ env \in Envs(backend)
    /\ hdfsFs = EmptyFs
    /\ localFs \in (IF backend = "hdfs" THEN {EmptyFs, LegacyFs} ELSE {EmptyFs})
    /\ now = 2 * TicksPerDay - 1
    /\ resp = Idle
    /\ handlers = NoHandlers
    /\ mirror \in UNION {
            {[fs |-> EmptyFs, writes |-> w, order |-> o, done |-> 0] :
                w \in [1..k -> OrderRecords], o \in Perms(1..k)} : k \in 1..MaxWrites}

NextOrder ==
    \/ ReplayWrite
    \/ ListBoth
    \/ ListCitiesAgain
    \/ Return

SpecOrder == InitOrder /\ [][NextOrder]_vars

StrictlyAscending(seq) == \A i \in 1..Len(seq) - 1 : StrLess(seq[i], seq[i + 1])

\* C4: list_cities() returns a strictly ascending list (sorted, no
\* duplicates); a second call with no write in between returns the same
\* list; two stores that received the same write_record calls in different
\* orders return the same list.
C4_ListCitiesSortedStable ==
    resp.op = "list_cities" =>
        /\ StrictlyAscending(resp.cities)
        /\ "previous" \in DOMAIN resp => resp.cities = resp.previous
        /\ ("mirrored" \in DOMAIN resp /\ mirror.done = Len(mirror.writes))
              => resp.cities = resp.mirrored

\* both stores have received three writes, the second store in another
\* order; list_cities() is called a second time and returns two cities or more
C4_Witness ==
    /\ resp.op = "list_cities"
    /\ "previous" \in DOMAIN resp
    /\ mirror.done = Len(mirror.writes)
    /\ mirror.done >= 3
    /\ mirror.order[1] # 1
    /\ mirror.fs # ActiveFs
    /\ Len(resp.cities) >= 2

----------------------------------------------------------------------------
(* A store in which lines have been damaged on disk (a torn write, a bad    *)
(* sector): two partitions, two files in the first one.                     *)

\* the two readings of the clock of each of n writes made within one tick
SameClock(n, clock) == [i \in 1..n |-> <<clock, clock>>]

\* the store after the writes of the records in order, clocks[i] being the
\* two readings of the clock of write i
RECURSIVE write_all(_, _, _)
write_all(fs, records, clocks) ==
    IF Len(records) = 0 THEN fs
    ELSE write_all(write_record(fs, Head(records), Head(clocks)[1], Head(clocks)[2]),
                   Tail(records), Tail(clocks))

DamageSeed ==
    << [city |-> <<"a">>, timestamp |-> Naive(0), tempC |-> {1}],
       [city |-> <<"a">>, timestamp |-> Naive(1), tempC |-> {2}],
       [city |-> <<"b">>, timestamp |-> Naive(0), tempC |-> {3}],
       [city |-> <<"a">>, timestamp |-> Naive(TicksPerDay), tempC |-> {4}] >>

DamagedLines(fs) ==
    {<<p, i>> \in PathsOf(fs) \X (1..Len(DamageSeed)) :
        i <= Len(fs.files[p]) /\ fs.files[p][i].kind # "json"}

\* line i of one partition file is replaced by bytes that are not a record
Damage(path, i, line) ==
    /\ resp = Idle
    /\ Cardinality(DamagedLines(ActiveFs)) < MaxDamaged
    /\ path \in PathsOf(ActiveFs)
    /\ i \in 1..Len(ActiveFs.files[path])
    /\ ActiveFs.files[path][i].kind = "json"
    /\ IF backend = "hdfs"
       THEN /\ hdfsFs' = [hdfsFs EXCEPT !.files[path][i] = line]
            /\ UNCHANGED localFs
       ELSE /\ localFs' = [localFs EXCEPT !.files[path][i] = line]
            /\ UNCHANGED hdfsFs
    /\ UNCHANGED <<backend, now, resp, handlers, mirror, env>>

InitDamage ==
    /\ env = NormalEnv
    /\ backend \in {"local", "hdfs"}
    /\ now = MaxNow
    /\ hdfsFs = (IF backend = "hdfs" THEN write_all(EmptyFs, DamageSeed, SameClock(Len(DamageSeed), now)) ELSE EmptyFs)
    /\ localFs = (IF backend = "local" THEN write_all(EmptyFs, DamageSeed, SameClock(Len(DamageSeed), now)) ELSE EmptyFs)
    /\ resp = Idle
    /\ handlers = NoHandlers
    /\ mirror = NoMirror

NextDamage ==
    \/ \E path \in PathsOf(ActiveFs), i \in 1..Len(DamageSeed), line \in {Garbage, BadBytes} :
          Damage(path, i, line)
    \/ \E city \in {{}, {<<"a">>}, {<<"b">>}}, since \in SinceArgs : ReadRecords(city, since)
    \/ Return

SpecDamage == InitDamage /\ [][NextDamage]_vars

\* the record matches the filters of read_records(city, since)
MatchesFilters(record, city, since) ==
    /\ city = {} \/ lower(get(record, "city", <<"unknown">>)) = lower(The(city))
    /\ \/ since = {}
       \/ "timestamp" \notin DOMAIN record
       \/ record["timestamp"].kind # "naive"
       \/ record["timestamp"].t >= The(since)

\* C5: when one line of a partition file cannot be read as a record (invalid
\* JSON, or bytes that cannot be decoded), read_records still returns every
\* valid record of the other lines of that file and of every other file
\* that matches the filters.
C5_DamagedLineSkippedOnly ==
    (resp.op = "read_records" /\ Cardinality(DamagedLines(ActiveFs)) <= 1) =>
        \A r \in StoredRecords(ActiveFs) :
            MatchesFilters(r, resp.city, resp.since) => r \in Range(resp.records)

----------------------------------------------------------------------------
(* Floats, as exact rational numbers *)

Abs(x) == IF x < 0 THEN -x ELSE x

RECURSIVE GCD(_, _)
GCD(a, b) == IF b = 0 THEN a ELSE GCD(b, a % b)

Rat(n, d) ==
    LET g == GCD(Abs(n), Abs(d))
        sgn == IF d < 0 THEN -1 ELSE 1
    IN [n |-> sgn * (n \div g), d |-> sgn * (d \div g)]

float(i) == [n |-> i, d |-> 1]
Zero == float(0)

RAdd(x, y) == Rat(x.n * y.d + y.n * x.d, x.d * y.d)
RSub(x, y) == Rat(x.n * y.d - y.n * x.d, x.d * y.d)
RMul(x, y) == Rat(x.n * y.n, x.d * y.d)
RDiv(x, y) == Rat(x.n * y.d, x.d * y.n)
RLess(x, y) == x.n * y.d < y.n * x.d

\* sum(values)
RECURSIVE sum(_)
sum(values) == IF Len(values) = 0 THEN Zero ELSE RAdd(Head(values), sum(Tail(values)))

\* round(x, 2): the nearest multiple of 1/100, a tie going to the even one.
\* The floats of the code are exact rationals here; the two differ only when
\* the exact value is a tie (x.xx5), where the error of the float arithmetic
\* decides in the code. No value the specifications reach is such a tie.
round2(x) ==
    LET p == x.n * 100
        f == p \div x.d
        twice == 2 * (p - f * x.d)
        r == IF twice < x.d THEN f
             ELSE IF twice > x.d THEN f + 1
             ELSE IF f % 2 = 0 THEN f ELSE f + 1
    IN Rat(r, 100)

----------------------------------------------------------------------------
(* main._linear_forecast *)

\* a fit whose intercept is the mean of the values
linear_fit_mean_intercept(values) ==
    LET n == Len(values)
        xs == [i \in 1..n |-> float(i - 1)]
        mean_x == RDiv(sum(xs), float(n))
        mean_y == RDiv(sum(values), float(n))
        denom == sum([i \in 1..n |-> RMul(RSub(xs[i], mean_x), RSub(xs[i], mean_x))])
        slope == IF denom = Zero THEN Zero
                 ELSE RDiv(sum([i \in 1..n |->
                                RMul(RSub(xs[i], mean_x), RSub(values[i], mean_y))]),
                           denom)
    IN [slope |-> slope, intercept |-> mean_y]

\* the least-squares line through (0, values[1]), (1, values[2]), ...
linear_fit(values) ==
    LET n == Len(values)
        xs == [i \in 1..n |-> float(i - 1)]
        mean_x == RDiv(sum(xs), float(n))
        mean_y == RDiv(sum(values), float(n))
        denom == sum([i \in 1..n |-> RMul(RSub(xs[i], mean_x), RSub(xs[i], mean_x))])
        slope == IF denom = Zero THEN Zero
                 ELSE RDiv(sum([i \in 1..n |->
                                RMul(RSub(xs[i], mean_x), RSub(values[i], mean_y))]),
                           denom)
    IN [slope |-> slope, intercept |-> RSub(mean_y, RMul(slope, mean_x))]

\* an extrapolation that starts at the last day of the series
linear_forecast_from_last(values, periods) ==
    IF Len(values) = 0 THEN [k \in 1..periods |-> {}]
    ELSE IF Len(values) = 1 THEN [k \in 1..periods |-> {round2(values[1])}]
    ELSE LET fit == linear_fit(values)
         IN [k \in 1..periods |->
                {round2(RAdd(fit.intercept,
                             RMul(fit.slope, float(Len(values) + k - 2))))}]

linear_forecast(values, periods) ==
    IF Len(values) = 0 THEN [k \in 1..periods |-> {}]
    ELSE IF Len(values) = 1 THEN [k \in 1..periods |-> {round2(values[1])}]
    ELSE LET fit == linear_fit(values)
         IN [k \in 1..periods |->
                {round2(RAdd(fit.intercept,
                             RMul(fit.slope, float(Len(values) + k - 1))))}]

\* the daily means the forecast is computed from
SeriesValues == {-2, 0, 10, 12, 14, 20, 30}

Series == UNION {[1..k -> {float(v) : v \in SeriesValues}] : k \in 0..MaxLen}

\* _linear_forecast(values, periods) is called and returns
LinearForecast ==
    /\ resp.op = "call_linear_forecast"
    /\ resp' = [op |-> "_linear_forecast", values |-> resp.values,
                periods |-> resp.periods,
                fit |-> IF Len(resp.values) >= 2 THEN linear_fit(resp.values)
                        ELSE [slope |-> Zero, intercept |-> Zero],
                forecasts |-> linear_forecast(resp.values, resp.periods)]
    /\ UNCHANGED <<backend, localFs, hdfsFs, now, handlers, mirror, env>>

InitLinear ==
    /\ env = NormalEnv
    /\ backend = "local"
    /\ localFs = EmptyFs
    /\ hdfsFs = EmptyFs
    /\ now = 0
    /\ resp \in [op : {"call_linear_forecast"}, values : Series, periods : 1..MaxPeriods]
    /\ handlers = NoHandlers
    /\ mirror = NoMirror

NextLinear == LinearForecast

SpecLinear == InitLinear /\ [][NextLinear]_vars

\* values[i] = a + b * (i - 1) for integers a and b
OnLine(values, a, b) == \A i \in 1..Len(values) : values[i] = float(a + b * (i - 1))

\* C8: for a series of n >= 2 values on a line a + b*i with integer a and b,
\* _linear_forecast fits slope b and intercept a and returns a + b*n,
\* a + b*(n+1), ...; for [10, 12] the slope is 2 and the first value is 14.
C8_LinearSeriesExtrapolated ==
    (resp.op = "_linear_forecast" /\ Len(resp.values) >= 2) =>
        \A a \in SeriesValues, b \in -20..20 :
            OnLine(resp.values, a, b) =>
                /\ resp.fit = [slope |-> float(b), intercept |-> float(a)]
                /\ Len(resp.forecasts) = resp.periods
                /\ \A k \in 1..resp.periods :
                      resp.forecasts[k] = {float(a + b * (Len(resp.values) + k - 1))}

\* _linear_forecast([10, 12], 2) has returned [14, 16] with slope 2
C8_Witness ==
    /\ resp.op = "_linear_forecast"
    /\ resp.values = <<float(10), float(12)>>
    /\ resp.fit.slope = float(2)
    /\ resp.forecasts[1] = {float(14)}


\* the arithmetic mean of a series
MeanOf(values) == RDiv(sum(values), float(Len(values)))

\* C9 as stated: every forecast day equals the arithmetic mean of the
\* series; for [10, 20, 30] every forecast day equals 20.
C9_ForecastEqualsMean ==
    (resp.op = "_linear_forecast" /\ Len(resp.values) >= 1) =>
        \A k \in 1..resp.periods : resp.forecasts[k] = {round2(MeanOf(resp.values))}

\* C9, amended: the forecast is the linear extrapolation. Forecast day k
\* equals mean + slope * (n - 1 + k - (n - 1)/2), rounded; it equals the
\* mean of the series when the fitted slope is 0 (a constant series, a
\* series of one day); for [10, 20, 30] the forecast days are 40, 50, ...
C9_ForecastEqualsMeanWhenFlat ==
    (resp.op = "_linear_forecast" /\ Len(resp.values) >= 1) =>
        LET n == Len(resp.values)
            mean == MeanOf(resp.values)
            flat == \A i \in 1..n : resp.values[i] = resp.values[1]
        IN /\ Len(resp.forecasts) = resp.periods
           /\ flat => \A k \in 1..resp.periods : resp.forecasts[k] = {round2(mean)}
           /\ n >= 2 =>
                \A k \in 1..resp.periods :
                    resp.forecasts[k] =
                        {round2(RAdd(mean, RMul(resp.fit.slope,
                                                Rat(2 * (n - 1 + k) - (n - 1), 2))))}
           /\ resp.values = <<float(10), float(20), float(30)>> =>
                \A k \in 1..resp.periods : resp.forecasts[k] = {float(30 + 10 * k)}

\* _linear_forecast([10, 20, 30], periods) has returned 40 for the first day
C9_Witness ==
    /\ resp.op = "_linear_forecast"
    /\ resp.values = <<float(10), float(20), float(30)>>
    /\ resp.forecasts[1] = {float(40)}

----------------------------------------------------------------------------
(* main.get_stats and main.get_history *)

\* datetime.now() - timedelta(days=days)
days_ago(clock, days) == clock - days * TicksPerDay

\* the values of a metric with 0 for every record that has none
numeric_or_zero(records, key) ==
    [i \in 1..Len(records) |->
        IF key \in DOMAIN records[i] /\ records[i][key] # {}
        THEN float(The(records[i][key])) ELSE Zero]

\* [r.get(key) for r in records if isinstance(r.get(key), (int, float))]
numeric(records, key) ==
    LET kept == SelectSeq(records, LAMBDA r : key \in DOMAIN r /\ r[key] # {})
    IN [i \in 1..Len(kept) |-> float(The(kept[i][key]))]

\* min(values), max(values)
min(values) == CHOOSE v \in Range(values) : \A w \in Range(values) : ~RLess(w, v)
max(values) == CHOOSE v \in Range(values) : \A w \in Range(values) : ~RLess(v, w)

\* city or "all"
city_or_all(city) == IF city = {} \/ The(city) = <<>> THEN <<"all">> ELSE The(city)

\* a summary whose averages are 0 when there is no record
get_stats_zero_averages(city, days, records) ==
    [city |-> city_or_all(city), period_days |-> days, record_count |-> Len(records),
     avg_tempC |-> {Zero}, avg_humidity |-> {Zero}, avg_windKph |-> {Zero},
     min_tempC |-> {}, max_tempC |-> {}]

\* the body get_stats returns for the records read_records gave it
get_stats(city, days, records) ==
    IF Len(records) = 0
    THEN [city |-> city_or_all(city), period_days |-> days, record_count |-> 0,
          avg_tempC |-> {}, avg_humidity |-> {}, avg_windKph |-> {},
          min_tempC |-> {}, max_tempC |-> {}]
    ELSE LET temps == numeric(records, "tempC")
             hums == numeric(records, "humidity")
             winds == numeric(records, "windKph")
             avg(values) == RDiv(sum(values), float(Len(values)))
         IN [city |-> city_or_all(city), period_days |-> days,
             record_count |-> Len(records),
             avg_tempC |-> IF Len(temps) = 0 THEN {} ELSE {round2(avg(temps))},
             avg_humidity |-> IF Len(hums) = 0 THEN {} ELSE {round2(avg(hums))},
             avg_windKph |-> IF Len(winds) = 0 THEN {} ELSE {round2(avg(winds))},
             min_tempC |-> IF Len(temps) = 0 THEN {} ELSE {round2(min(temps))},
             max_tempC |-> IF Len(temps) = 0 THEN {} ELSE {round2(max(temps))}]

\* x.get("timestamp", ""), as a key that orders the timestamp strings the
\* way str orders them: "" first, then the ISO strings by date and time (an
\* aware one is the naive one with a suffix), then the strings that are not
\* dates (they start with a letter)
timestamp_key(record) ==
    IF "timestamp" \notin DOMAIN record THEN <<0, 0, 0>>
    ELSE LET ts == record["timestamp"]
         IN CASE ts.kind = "naive" -> <<1, ts.t, 0>>
              [] ts.kind = "aware" -> <<1, ts.t, 1>>
              [] ts.kind = "bad" -> <<2, 0, 0>>

KeyLess(k, l) ==
    \/ k[1] < l[1]
    \/ k[1] = l[1] /\ k[2] < l[2]
    \/ k[1] = l[1] /\ k[2] = l[2] /\ k[3] < l[3]

\* the records in the order they were read
not_sorted(records) == records

\* records.sort(key=..., reverse=True): descending, equal keys keep their order
RECURSIVE sort_reverse(_)
sort_reverse(records) ==
    IF Len(records) = 0 THEN <<>>
    ELSE LET x == Head(records)
             rest == sort_reverse(Tail(records))
             before == {i \in 1..Len(rest) :
                          \A j \in 1..i : KeyLess(timestamp_key(x), timestamp_key(rest[j]))}
             n == Cardinality(before)
         IN SubSeq(rest, 1, n) \o <<x>> \o SubSeq(rest, n + 1, Len(rest))

\* the body get_history returns for the records read_records gave it
get_history(city, days, records) ==
    [city |-> city_or_all(city), days |-> days, count |-> Len(records),
     records |-> sort_reverse(records)]

read_records(city, since, listing) ==
    IF backend = "hdfs" THEN HDFS_read_records(hdfsFs, city, since, listing)
    ELSE Local_read_records(localFs, city, since, listing)

\* GET /stats?city=&days=
GetStats(city, days) ==
    /\ resp = Idle
    /\ \E listing \in Listings(ActiveFs) :
          LET start_date == days_ago(now, days)
              records == read_records(city, {start_date}, listing)
          IN resp' = [op |-> "get_stats", city |-> city, days |-> days,
                      since |-> {start_date}, records |-> records,
                      status |-> 200, body |-> get_stats(city, days, records)]
    /\ UNCHANGED <<backend, localFs, hdfsFs, now, handlers, mirror, env>>

\* GET /history?city=&days=&start=&end=: the handler declares city and days
\* only, so the framework drops the start and end of the query string
GetHistory(city, days, start, end) ==
    /\ resp = Idle
    /\ \E listing \in Listings(ActiveFs) :
          LET start_date == days_ago(now, days)
              records == read_records(city, {start_date}, listing)
          IN resp' = [op |-> "get_history", city |-> city, days |-> days,
                      start |-> start, end |-> end,
                      since |-> {start_date}, records |-> records,
                      status |-> 200,
                      body |-> get_history(city, days, records)]
    /\ UNCHANGED <<backend, localFs, hdfsFs, now, handlers, mirror, env>>

QueryRecords ==
    { [city |-> <<"a">>, timestamp |-> Naive(0), tempC |-> {10}, humidity |-> {50},
       windKph |-> {5}],
      [city |-> <<"a">>, timestamp |-> Naive(2 * TicksPerDay), tempC |-> {13},
       humidity |-> {}],
      [city |-> <<"a">>, timestamp |-> Naive(2 * TicksPerDay + 1), tempC |-> {},
       humidity |-> {}, windKph |-> {}],
      [city |-> <<"b">>, timestamp |-> Naive(TicksPerDay), tempC |-> {20},
       humidity |-> {40}, windKph |-> {7}],
      [city |-> <<"a">>, timestamp |-> Aware(0), tempC |-> {11}, humidity |-> {60},
       windKph |-> {0}],
      [city |-> <<"A">>, timestamp |-> BadTs, tempC |-> {30}],
      [city |-> <<"a">>, humidity |-> {70}] }

QueryCities == {{}, {<<"a">>}}
QueryDays == {1, 7}
CalendarDays == 0..(MaxNow \div TicksPerDay)

Windows == {window \in CalendarDays \X CalendarDays : window[1] <= window[2]}

InitQuery ==
    /\ env = NormalEnv
    /\ backend \in {"local", "hdfs"}
    /\ hdfsFs = EmptyFs
    /\ localFs = EmptyFs
    /\ now = 2 * TicksPerDay
    /\ resp = Idle
    /\ handlers = NoHandlers
    /\ mirror = NoMirror

NextQuery ==
    \/ \E record \in QueryRecords : WriteRecord(record)
    \/ \E city \in QueryCities, days \in QueryDays : GetStats(city, days)
    \/ \E city \in QueryCities, days \in QueryDays, window \in Windows :
          GetHistory(city, days, window[1], window[2])
    \/ Return
    \/ Tick

SpecQuery == InitQuery /\ [][NextQuery]_vars

----------------------------------------------------------------------------
(* Claims about the statistics and the history *)

NullSummary(body) ==
    /\ body.record_count = 0
    /\ body.avg_tempC = {}
    /\ body.avg_humidity = {}
    /\ body.avg_windKph = {}
    /\ body.min_tempC = {}
    /\ body.max_tempC = {}

NoRecordMatches(city, since) ==
    \A r \in StoredRecords(ActiveFs) : r = <<>> \/ ~MatchesFilters(r, city, since)

\* C6: a statistics request whose city and time window match no stored
\* record (read_records returns an empty collection) answers without an
\* error, with record_count 0 and the three averages, the minimum and the
\* maximum all null.
C6_EmptyStatsSummary ==
    (resp.op = "get_stats" /\ (resp.records = <<>> \/ NoRecordMatches(resp.city, resp.since))) =>
        /\ resp.status = 200
        /\ NullSummary(resp.body)

\* a statistics request over a store that holds records, none of them in the
\* window asked for
C6_Witness ==
    /\ resp.op = "get_stats"
    /\ StoredRecords(ActiveFs) # {}
    /\ resp.records = <<>>
    /\ NoRecordMatches(resp.city, resp.since)
    /\ resp.status = 200
    /\ NullSummary(resp.body)

HasDate(record) ==
    "timestamp" \in DOMAIN record /\ record["timestamp"].kind \in {"naive", "aware"}

\* C10 as stated: a history request with start and end returns only records
\* whose timestamp's calendar date lies in [start, end], so that a request
\* with start = end = D over records of D-1 and D+1 returns no record.
C10_HistoryWithinStartEnd ==
    resp.op = "get_history" =>
        \A i \in 1..Len(resp.body.records) :
            LET r == resp.body.records[i]
            IN HasDate(r) =>
                  /\ resp.start <= DateOf(r["timestamp"].t)
                  /\ DateOf(r["timestamp"].t) <= resp.end

\* C10: a history request is restricted by its days parameter only: no
\* returned record with a timezone-naive timestamp is earlier than the
\* current time minus days, every stored record of the city with such a
\* timestamp at or after it is returned, and the count is the number of
\* records returned, whatever start and end the request carries.
C10_HistoryWithinLastDays ==
    resp.op = "get_history" =>
        LET since == days_ago(now, resp.days)
            returned == Range(resp.body.records)
        IN /\ \A r \in returned :
                  ("timestamp" \in DOMAIN r /\ r["timestamp"].kind = "naive")
                      => r["timestamp"].t >= since
           /\ \A r \in StoredRecords(ActiveFs) :
                  ( /\ "timestamp" \in DOMAIN r
                    /\ r["timestamp"].kind = "naive"
                    /\ r["timestamp"].t >= since
                    /\ MatchesFilters(r, resp.city, {}) ) => r \in returned
           /\ resp.body.count = Len(resp.body.records)
           /\ resp.status = 200

\* records of city a on the days 0 and 2 only, a request for the day 1
\* between them, and a record of day 2 in the answer
C10_Witness ==
    /\ resp.op = "get_history"
    /\ resp.city = {<<"a">>}
    /\ resp.start = 1
    /\ resp.end = 1
    /\ LET mine == {r \in StoredRecords(ActiveFs) : MatchesFilters(r, resp.city, {}) /\ HasDate(r)}
       IN /\ {DateOf(r["timestamp"].t) : r \in mine} = {0, 2}
    /\ \E i \in 1..Len(resp.body.records) :
          /\ HasDate(resp.body.records[i])
          /\ DateOf(resp.body.records[i]["timestamp"].t) = 2

----------------------------------------------------------------------------
(* main.generate_forecast and main.get_forecast *)

\* _parse_iso_date(ts) if isinstance(ts, str) else None: the calendar date of
\* a date-time string, naive or with an offset
parse_iso_date(record) ==
    IF "timestamp" \notin DOMAIN record THEN {}
    ELSE LET dt == fromisoformat(record["timestamp"])
         IN IF IsSome(dt) THEN {DateOf(The(dt).t)} ELSE {}

\* statistics.mean(values)
mean(values) == RDiv(sum(values), float(Len(values)))

\* sorted(dates)
RECURSIVE sorted_dates(_)
sorted_dates(dates) ==
    IF dates = {} THEN <<>>
    ELSE LET d == CHOOSE x \in dates : \A y \in dates : x <= y
         IN <<d>> \o sorted_dates(dates \ {d})

\* seq[-k:] for k >= 1
last(seq, k) == SubSeq(seq, IF Len(seq) > k THEN Len(seq) - k + 1 ELSE 1, Len(seq))

\* daily_map: for each date of a record, the numeric values of its records
daily_map(records) ==
    LET dates == UNION {parse_iso_date(records[i]) : i \in 1..Len(records)}
    IN [d \in dates |->
          LET of_day == SelectSeq(records, LAMBDA r : parse_iso_date(r) = {d})
          IN [temp |-> numeric(of_day, "tempC"),
              humid |-> numeric(of_day, "humidity"),
              wind |-> numeric(of_day, "windKph")]]

\* daily series in which a day without a value of the metric counts as 0
daily_series_zero_filled(daily, daily_dates, metric) ==
    [i \in 1..Len(daily_dates) |->
        IF Len(daily[daily_dates[i]][metric]) > 0
        THEN round2(mean(daily[daily_dates[i]][metric]))
        ELSE Zero]

\* the rounded daily means of one metric over the days that have a value
daily_series(daily, daily_dates, metric) ==
    LET with_values == SelectSeq(daily_dates, LAMBDA d : Len(daily[d][metric]) > 0)
    IN [i \in 1..Len(with_values) |-> round2(mean(daily[with_values[i]][metric]))]

HTTPException(status_code, detail) ==
    [status |-> status_code, detail |-> detail, body |-> {}]

\* a forecast whose first day is the day of the call
first_day_today(clock) == DateOf(clock)

\* "today = datetime.now().date(); tomorrow = today + timedelta(days=1)"
tomorrow_of(clock) == DateOf(clock) + 1

\* a check that asks one value of some metric only
too_few_days_below_one(temp_series, humid_series, wind_series) ==
    Len(temp_series) < 1 /\ Len(humid_series) < 1 /\ Len(wind_series) < 1

\* a check that asks two days of every metric
too_few_days_of_any(temp_series, humid_series, wind_series) ==
    Len(temp_series) < 2 \/ Len(humid_series) < 2 \/ Len(wind_series) < 2

\* "if len(temp_series) < 2 and len(humid_series) < 2 and len(wind_series) < 2"
too_few_days(temp_series, humid_series, wind_series) ==
    Len(temp_series) < 2 /\ Len(humid_series) < 2 /\ Len(wind_series) < 2

\* "since = datetime.now() - timedelta(days=max(lookback, days) + 5)" and
\* "records = storage.read_records(city=city, since=since)": the records
\* generate_forecast works on, clock being its first reading of the clock
forecast_records(city, days, lookback, listing, clock) ==
    read_records({city},
                 {days_ago(clock, (IF lookback > days THEN lookback ELSE days) + 5)},
                 listing)

\* generate_forecast reads the clock three times: clocks[1] for since, before
\* the storage read; clocks[2] for today, once the series are there;
\* clocks[3] for generated_at
generate_forecast(city, days, lookback, listing, clocks) ==
    LET records == forecast_records(city, days, lookback, listing, clocks[1])
    IN IF Len(records) = 0
       THEN HTTPException(404, "No stored data available for forecast")
       ELSE LET daily == daily_map(records)
            IN IF DOMAIN daily = {}
               THEN HTTPException(404, "Insufficient numeric data for forecast")
               ELSE LET daily_dates == last(sorted_dates(DOMAIN daily), lookback)
                        temp_series == daily_series(daily, daily_dates, "temp")
                        humid_series == daily_series(daily, daily_dates, "humid")
                        wind_series == daily_series(daily, daily_dates, "wind")
                        tomorrow == tomorrow_of(clocks[2])
                        temp_forecast == linear_forecast(temp_series, days)
                        humid_forecast == linear_forecast(humid_series, days)
                        wind_forecast == linear_forecast(wind_series, days)
                    IN IF too_few_days(temp_series, humid_series, wind_series)
                       THEN HTTPException(400, "Need at least two days of data for forecasting")
                       ELSE [status |-> 200, detail |-> "",
                             body |-> {[city |-> lower(city),
                                        generated_at |-> clocks[3],
                                        lookback_days |-> Len(daily_dates),
                                        forecast_days |-> days,
                                        data |-> [i \in 1..days |->
                                                    [date |-> tomorrow + i - 1,
                                                     tempC |-> temp_forecast[i],
                                                     humidity |-> humid_forecast[i],
                                                     windKph |-> wind_forecast[i]]]]}]

\* a horizon check without its lower limit
days_rejected_above_only(days) == days > 7

\* "if days < 2 or days > 7"
days_rejected(days) == days < 2 \/ days > 7

\* "if lookback < 3"
lookback_rejected(lookback) == lookback < 3

\* the three readings of the clock of a generate_forecast call that starts
\* at clock: time passes during the storage read and the computation
ForecastClocks(clock) ==
    UNION {{<<clock, today_at, generated_at>> : generated_at \in today_at..MaxNow} :
              today_at \in clock..MaxNow}

\* GET /forecast?city=&days=&lookback=; reads counts the read_records calls
\* the request made, clock is the time the request came in. A request that
\* is answered with an error before "today" is read has read the clock once
\* at most. generate_forecast raises nothing but HTTPException on the records
\* of the model, so the handler's 500 answer does not occur.
GetForecast(city, days, lookback) ==
    /\ resp = Idle
    /\ LET request == [op |-> "get_forecast", city |-> city, days |-> days,
                       lookback |-> lookback, clock |-> now]
       IN IF days_rejected(days)
          THEN /\ resp' = request @@ [reads |-> 0, records |-> <<>>]
                             @@ HTTPException(400, "Days must be between 2 and 7")
               /\ UNCHANGED now
          ELSE IF lookback_rejected(lookback)
          THEN /\ resp' = request @@ [reads |-> 0, records |-> <<>>]
                             @@ HTTPException(400, "Lookback should be at least 3 days")
               /\ UNCHANGED now
          ELSE \E listing \in Listings(ActiveFs), clocks \in ForecastClocks(now) :
                  LET records == forecast_records(city, days, lookback, listing, now)
                      answer == generate_forecast(city, days, lookback, listing, clocks)
                  IN /\ answer.status # 200 => clocks[3] = now
                     /\ resp' = request @@ [reads |-> 1, records |-> records] @@ answer
                     /\ now' = clocks[3]
    /\ UNCHANGED <<backend, localFs, hdfsFs, handlers, mirror, env>>

ForecastRecords ==
    { [city |-> <<"a">>, timestamp |-> Naive(0), tempC |-> {10}, humidity |-> {50},
       windKph |-> {5}],
      [city |-> <<"a">>, timestamp |-> Naive(1), tempC |-> {13}, humidity |-> {}],
      [city |-> <<"a">>, timestamp |-> Naive(TicksPerDay), tempC |-> {14},
       humidity |-> {60}],
      [city |-> <<"a">>, timestamp |-> Aware(2 * TicksPerDay), tempC |-> {20}],
      [city |-> <<"a">>, timestamp |-> BadTs, tempC |-> {30}],
      [city |-> <<"b">>, timestamp |-> Naive(TicksPerDay), tempC |-> {},
       humidity |-> {}, windKph |-> {}] }

ForecastCities == {<<"a">>, <<"A">>, <<"b">>}
ForecastDays == {1, 2, 7, 8}
Lookbacks == {2, 3, 14}

\* records an earlier run stored, of four days that end on the day before
\* the model starts: the first has temperature on every day, humidity on some
\* and wind on the oldest day only; the second has temperature on the two
\* oldest days only
ForecastSeeds ==
    { << [city |-> <<"a">>, timestamp |-> Naive(0 - 3 * TicksPerDay), tempC |-> {10},
          humidity |-> {40}, windKph |-> {5}],
         [city |-> <<"a">>, timestamp |-> Naive(0 - 2 * TicksPerDay), tempC |-> {12},
          humidity |-> {50}],
         [city |-> <<"a">>, timestamp |-> Naive(0 - TicksPerDay), tempC |-> {14}],
         [city |-> <<"a">>, timestamp |-> Naive(0), tempC |-> {16},
          humidity |-> {60}] >>,
      << [city |-> <<"a">>, timestamp |-> Naive(0 - 3 * TicksPerDay), tempC |-> {10}],
         [city |-> <<"a">>, timestamp |-> Naive(0 - 2 * TicksPerDay), tempC |-> {12}],
         [city |-> <<"a">>, timestamp |-> Naive(0 - TicksPerDay), humidity |-> {50}],
         [city |-> <<"a">>, timestamp |-> Naive(0), windKph |-> {5}] >> }

\* the store is empty or holds the records of an earlier run; the clock is
\* at the last tick of a day
InitForecast ==
    /\ env = NormalEnv
    /\ backend \in {"local", "hdfs"}
    /\ now = 2 * TicksPerDay - 1
    /\ \E seed \in {<<>>} \cup ForecastSeeds :
          LET fs == write_all(EmptyFs, seed, SameClock(Len(seed), now))
          IN /\ hdfsFs = (IF backend = "hdfs" THEN fs ELSE EmptyFs)
             /\ localFs = (IF backend = "local" THEN fs ELSE EmptyFs)
    /\ resp = Idle
    /\ handlers = NoHandlers
    /\ mirror = NoMirror

NextForecast ==
    \/ \E record \in ForecastRecords : WriteRecord(record)
    \/ \E city \in ForecastCities, days \in ForecastDays, lookback \in Lookbacks :
          GetForecast(city, days, lookback)
    \/ Return
    \/ Tick

SpecForecast == InitForecast /\ [][NextForecast]_vars

\* C7: a forecast request whose horizon is outside [2, 7] is answered 400
\* "Days must be between 2 and 7" without a storage read and without a
\* forecast, whatever is stored; a horizon in [2, 7] is never answered so: it
\* goes on to the lookback check and, past it, to the storage read.
C7_HorizonValidated ==
    resp.op = "get_forecast" =>
        IF resp.days < 2 \/ resp.days > 7
        THEN /\ resp.status = 400
             /\ resp.detail = "Days must be between 2 and 7"
             /\ resp.reads = 0
             /\ resp.body = {}
        ELSE /\ resp.detail # "Days must be between 2 and 7"
             /\ resp.lookback >= 3 => resp.reads = 1

\* a horizon of 8 refused over a store from which a horizon of 7 is forecast
C7_Witness ==
    /\ resp.op = "get_forecast"
    /\ resp.days = 8
    /\ resp.status = 400
    /\ resp.reads = 0
    /\ \E listing \in Listings(ActiveFs) :
          generate_forecast(resp.city, 7, resp.lookback, listing,
                            <<now, now, now>>).status = 200

----------------------------------------------------------------------------
(* Claims about the partition a record is stored in *)

BeforeFs == IF backend = "hdfs" THEN resp.before.hdfsFs ELSE resp.before.localFs

\* the partition files the write in flight created or changed
ChangedPaths ==
    {p \in PathsOf(ActiveFs) :
        p \notin PathsOf(BeforeFs) \/ ActiveFs.files[p] # BeforeFs.files[p]}

\* C11: write_record stores a record whose timestamp parses as an ISO
\* date-time in the partition of the timestamp's own calendar day, whatever
\* the day of the wall clock at the write: the one file the write changes is
\* in that partition, and its last line is the record.
C11_PartitionIsTimestampDay ==
    (resp.op = "write_record" /\ HasDate(resp.record)) =>
        LET day == DateOf(resp.record["timestamp"].t)
        IN /\ day \in ActiveFs.dirs
           /\ ChangedPaths # {}
           /\ \A p \in ChangedPaths :
                 /\ p[1] = day
                 /\ ActiveFs.files[p][Len(ActiveFs.files[p])] = json_dumps(resp.record)

\* a record of an earlier day written today: it is in the partition of its
\* day, and today has no partition
C11_Witness ==
    /\ resp.op = "write_record"
    /\ HasDate(resp.record)
    /\ DateOf(resp.record["timestamp"].t) < DateOf(resp.clock)
    /\ \E p \in ChangedPaths : p[1] = DateOf(resp.record["timestamp"].t)
    /\ DateOf(resp.clock) \notin ActiveFs.dirs

----------------------------------------------------------------------------
(* The adapters on an environment that fails *)
(* env.hdfs = "down": every call of the WebHDFS client raises (the namenode  *)
(* does not answer). env.local = "down": every os call on the data directory *)
(* fails (os.path.exists answers False, the others raise OSError).           *)

NoError == {}
Raised(type, cause) == {[type |-> type, cause |-> cause]}

\* a call that one request sees fail although the backend answers
NoFault == [kind |-> "none", day |-> 0]
Faults(fs) ==
    {NoFault, [kind |-> "list_root", day |-> 0]}
        \cup {[kind |-> "list_partition", day |-> d] : d \in fs.dirs}

\* "except Exception: continue" around the listing of one partition
listed(listing, fault) ==
    IF fault.kind = "list_partition"
    THEN [listing EXCEPT !.days = SelectSeq(@, LAMBDA d : d # fault.day)]
    ELSE listing

\* LocalAdapter.write_record: the OSError of os.makedirs or open is not caught
Local_write_record_call(fs, record, clock, e) ==
    IF e.local = "down"
    THEN [raised |-> Raised("OSError", {}), fs |-> fs]
    ELSE [raised |-> NoError, fs |-> Local_write_record(fs, record, clock)]

\* a write that swallows the failure of the client
HDFS_write_record_call_silent(fs, record, clock, later, e) ==
    IF e.hdfs = "down"
    THEN [raised |-> NoError, fs |-> fs]
    ELSE [raised |-> NoError, fs |-> HDFS_write_record(fs, record, clock, later)]

\* HDFSAdapter.write_record: "except Exception as e: raise Exception(f"HDFS
\* write failed: {e}")"
HDFS_write_record_call(fs, record, clock, later, e) ==
    IF e.hdfs = "down"
    THEN [raised |-> Raised("Exception", {"ConnectionError"}), fs |-> fs]
    ELSE [raised |-> NoError, fs |-> HDFS_write_record(fs, record, clock, later)]

\* LocalAdapter.read_records: no exception leaves the method
Local_read_records_call(fs, city, since, listing, e, fault) ==
    IF e.local = "down" \/ ~fs.ingest            \* not os.path.exists(...)
    THEN [raised |-> NoError, records |-> <<>>]
    ELSE IF fault.kind = "list_root"             \* except Exception: pass
    THEN [raised |-> NoError, records |-> <<>>]
    ELSE [raised |-> NoError,
          records |-> scan_partitions(fs, city, since, listed(listing, fault))]

\* HDFSAdapter.read_records: the exception of client.status leaves the method
\* as Exception(f"HDFS read failed: {e}"), those of client.list do not
HDFS_read_records_call(fs, city, since, listing, e, fault) ==
    IF e.hdfs = "down"
    THEN [raised |-> Raised("Exception", {"ConnectionError"}), records |-> <<>>]
    ELSE IF ~fs.ingest \/ fault.kind = "list_root"
    THEN [raised |-> NoError, records |-> <<>>]
    ELSE [raised |-> NoError,
          records |-> scan_partitions(fs, city, since, listed(listing, fault))]

\* the file-name keys of the partitions a listing reaches
cities_listed(fs, fault) ==
    IF fault.kind = "list_root" THEN {}
    ELSE {lower(replace_jsonl(p[2])) :
             p \in {q \in PathsOf(fs) : endswith_jsonl(q[2])
                                        /\ ~(fault.kind = "list_partition" /\ q[1] = fault.day)}}
            \ {<<>>}

\* LocalAdapter.list_cities
Local_list_cities_call(fs, e, fault) ==
    [raised |-> NoError,
     cities |-> IF e.local = "down" \/ ~fs.ingest THEN <<>>
                ELSE sorted(cities_listed(fs, fault)),
     local_read |-> e.local = "up" /\ fs.ingest]

\* HDFSAdapter.list_cities: "try HDFS first" inside "except Exception: pass",
\* then the local data directories, whatever the first part found
HDFS_list_cities_call(fs, paths, e, fault, faults) ==
    LET remote == IF e.hdfs = "down" \/ ~fs.ingest THEN {} ELSE cities_listed(fs, fault)
        fallback == IF e.local = "down"           \* os.path.exists is False for each
                    THEN [cities |-> remote, local_read |-> FALSE]
                    ELSE local_fallback(remote, paths, faults)
    IN [raised |-> NoError,
        cities |-> sorted(fallback.cities),
        local_read |-> fallback.local_read]

\* LocalAdapter(local_dir): os.makedirs(base_dir, exist_ok=True) raises
\* OSError when the local disk fails, and nothing catches it
LocalAdapter_init(e) ==
    IF e.local = "down"
    THEN [adapter |-> "none", raised |-> Raised("OSError", {})]
    ELSE [adapter |-> "local", raised |-> NoError]

\* the factory returns the HDFS adapter although the probe raised
get_storage_adapter_unprobed(e, fault) ==
    IF e.library /\ fault = "none"
    THEN [adapter |-> "hdfs", raised |-> NoError]
    ELSE LocalAdapter_init(e)

\* get_storage_adapter(): fault is the constructor that raises, if one does
\* (HdfsClient(...) or HDFSAdapter(...)); client.status(".") raises when the
\* namenode does not answer. The fallback LocalAdapter(local_dir) is outside
\* the try.
get_storage_adapter(e, fault) ==
    IF e.library /\ fault = "none" /\ e.hdfs = "up"
    THEN [adapter |-> "hdfs", raised |-> NoError]
    ELSE LocalAdapter_init(e)

----------------------------------------------------------------------------
(* The life of one process: the factory runs once, then the requests, while  *)
(* the namenode and the local disk go down and come back                     *)

write_record_call(fs, record, clock, later, e) ==
    IF backend = "hdfs" THEN HDFS_write_record_call(fs, record, clock, later, e)
    ELSE Local_write_record_call(fs, record, clock, e)

\* the store of the active adapter stops answering
store_down(e) ==
    IF backend = "hdfs" THEN [e EXCEPT !.hdfs = "down"] ELSE [e EXCEPT !.local = "down"]

\* "for record in data.records: storage.write_record(record.dict());
\* stored_count += 1", up to the first write that raises; the store stops
\* answering just before write number outage_at (0: not during this loop);
\* clocks[i] are the two readings of the clock of write i
RECURSIVE ingest_records(_, _, _, _, _)
ingest_records(fs, records, clocks, e, outage_at) ==
    IF Len(records) = 0
    THEN [raised |-> NoError, fs |-> fs, stored_count |-> 0, env |-> e]
    ELSE LET e1 == IF outage_at = 1 THEN store_down(e) ELSE e
             w == write_record_call(fs, Head(records), Head(clocks)[1], Head(clocks)[2], e1)
         IN IF w.raised # NoError
            THEN [raised |-> w.raised, fs |-> w.fs, stored_count |-> 0, env |-> e1]
            ELSE LET rest == ingest_records(w.fs, Tail(records), Tail(clocks), e1,
                                            outage_at - 1)
                 IN [rest EXCEPT !.stored_count = @ + 1]

\* an ingestion that takes back the writes of a batch that fails
ingest_weather_rolled_back(fs, records, clocks, e, outage_at) ==
    IF Len(records) = 0
    THEN [status |-> 400, detail |-> "No records provided", count |-> 0, fs |-> fs,
          env |-> e]
    ELSE LET r == ingest_records(fs, records, clocks, e, outage_at)
         IN IF r.raised # NoError
            THEN [status |-> 500, detail |-> "write failed", count |-> 0, fs |-> fs,
                  env |-> r.env]
            ELSE [status |-> 200, detail |-> "", count |-> r.stored_count, fs |-> r.fs,
                  env |-> r.env]

\* POST /ingest: the answer, the store and the environment it leaves
ingest_weather(fs, records, clocks, e, outage_at) ==
    IF Len(records) = 0
    THEN [status |-> 400, detail |-> "No records provided", count |-> 0, fs |-> fs,
          env |-> e]
    ELSE LET r == ingest_records(fs, records, clocks, e, outage_at)
         IN IF r.raised # NoError
            THEN [status |-> 500, detail |-> "write failed", count |-> 0, fs |-> r.fs,
                  env |-> r.env]
            ELSE [status |-> 200, detail |-> "", count |-> r.stored_count, fs |-> r.fs,
                  env |-> r.env]

Stores == [localFs |-> localFs, hdfsFs |-> hdfsFs]

\* storage = get_storage_adapter(), at the import of main; when it raises,
\* the import fails and the process has no adapter
StartProcess(fault) ==
    /\ backend = "none"
    /\ resp = Idle
    /\ LET r == get_storage_adapter(env, fault)
       IN /\ backend' = r.adapter
          /\ resp' = [op |-> "get_storage_adapter", fault |-> fault, env |-> env,
                      raised |-> r.raised, before |-> Stores]
    /\ UNCHANGED <<localFs, hdfsFs, now, handlers, mirror, env>>

SetActiveFs(fs) ==
    IF backend = "hdfs" THEN hdfsFs' = fs /\ UNCHANGED localFs
    ELSE localFs' = fs /\ UNCHANGED hdfsFs

\* storage.write_record(record)
CallWriteRecord(record) ==
    /\ backend # "none"
    /\ resp = Idle
    /\ TotalLines(ActiveFs) < MaxWrites
    /\ \E later \in Laters(now) :
          LET w == write_record_call(ActiveFs, record, now, later, env)
          IN /\ SetActiveFs(w.fs)
             /\ now' = later
             /\ resp' = [op |-> "write_record", record |-> record, clock |-> now,
                         later |-> later,
                         env |-> env, raised |-> w.raised, local_read |-> FALSE,
                         before |-> Stores]
    /\ UNCHANGED <<backend, handlers, mirror, env>>

\* the readings of the clock of the n writes of a batch, two for each: the
\* next tick starts at reading number midnight_at (0: not during the batch)
Readings(n, clock, midnight_at) ==
    LET reading(j) == IF midnight_at # 0 /\ j >= midnight_at THEN clock + 1 ELSE clock
    IN [i \in 1..n |-> <<reading(2 * i - 1), reading(2 * i)>>]

\* the readings of a batch at which the next day can start (0: none): the
\* clock is at the last tick of a day, and the reading decides where a
\* record goes, so it is one of a write of a record without a date, the
\* first of the two for the LocalAdapter (at any other reading it is a tick
\* before or after the request)
Midnights(records) ==
    IF now < MaxNow /\ DateOf(now + 1) # DateOf(now)
    THEN {0} \cup {j \in 1..(2 * Len(records)) :
                    /\ ~HasDate(records[(j + 1) \div 2])
                    /\ backend = "local" => j % 2 = 1}
    ELSE {0}

\* POST /ingest; the store may stop answering and the day may end while the
\* batch is written
IngestWeather(records, outage_at, midnight_at) ==
    /\ backend # "none"
    /\ resp = Idle
    /\ TotalLines(ActiveFs) + Len(records) <= MaxWrites
    /\ midnight_at \in Midnights(records)
    /\ LET clocks == Readings(Len(records), now, midnight_at)
           r == ingest_weather(ActiveFs, records, clocks, env, outage_at)
       IN /\ SetActiveFs(r.fs)
          /\ env' = r.env
          /\ now' = IF midnight_at = 0 THEN now ELSE now + 1
          /\ resp' = [op |-> "ingest_weather", records |-> records, clock |-> now,
                      clocks |-> clocks,
                      env |-> env, outage_at |-> outage_at,
                      status |-> r.status, detail |-> r.detail,
                      count |-> r.count, before |-> Stores]
    /\ UNCHANGED <<backend, handlers, mirror>>

\* storage.read_records(city, since)
CallReadRecords(city, since, fault) ==
    /\ backend # "none"
    /\ resp = Idle
    /\ \E listing \in Listings(ActiveFs) :
          LET r == IF backend = "hdfs"
                   THEN HDFS_read_records_call(hdfsFs, city, since, listing, env, fault)
                   ELSE Local_read_records_call(localFs, city, since, listing, env, fault)
          IN resp' = [op |-> "read_records", city |-> city, since |-> since,
                      fault |-> fault, env |-> env, raised |-> r.raised,
                      records |-> r.records,
                      local_read |-> backend = "local" /\ env.local = "up" /\ localFs.ingest,
                      before |-> Stores]
    /\ UNCHANGED <<backend, localFs, hdfsFs, now, handlers, mirror, env>>

\* storage.list_cities()
CallListCities(fault, faults) ==
    /\ backend # "none"
    /\ resp = Idle
    /\ LET r == IF backend = "hdfs"
                THEN HDFS_list_cities_call(hdfsFs, possible_paths(localFs, env), env,
                                           fault, faults)
                ELSE Local_list_cities_call(localFs, env, fault)
       IN resp' = [op |-> "list_cities", fault |-> fault, faults |-> faults, env |-> env,
                   raised |-> r.raised, cities |-> r.cities,
                   local_read |-> r.local_read, before |-> Stores]
    /\ UNCHANGED <<backend, localFs, hdfsFs, now, handlers, mirror, env>>

\* the namenode or the local disk stops answering
Outage(part) ==
    /\ resp = Idle
    /\ env[part] = "up"
    /\ env' = [env EXCEPT ![part] = "down"]
    /\ UNCHANGED <<backend, localFs, hdfsFs, now, resp, handlers, mirror>>

\* and answers again
Recover(part) ==
    /\ resp = Idle
    /\ env[part] = "down"
    /\ env' = [env EXCEPT ![part] = "up"]
    /\ UNCHANGED <<backend, localFs, hdfsFs, now, resp, handlers, mirror>>

\* the local listings one list_cities call of the HDFS adapter sees fail: at
\* most one of the three directories
LocalFaultsOf(paths) ==
    IF backend # "hdfs" THEN {NoLocalFaults}
    ELSE {NoLocalFaults} \cup
         UNION {{[NoLocalFaults EXCEPT ![i] = f] : f \in LocalFaults(paths[i])} : i \in 1..3}

\* the records a client posts: every field of WeatherRecord is there
ProcessRecords ==
    { [city |-> <<"a">>, timestamp |-> Naive(0), tempC |-> {10}, humidity |-> {50},
       windKph |-> {5}],
      [city |-> <<"A">>, timestamp |-> BadTs, tempC |-> {12},
       humidity |-> {40}, windKph |-> {0}] }

IngestRequests == UNION {[1..k -> ProcessRecords] : k \in 0..MaxWrites}

ConstructorFaults == {"none", "HdfsClient", "HDFSAdapter"}

\* the process starts; the hdfs package may be missing, the namenode may be
\* down and the local disk may fail
InitProcess ==
    /\ backend = "none"
    /\ env \in {[library |-> l, hdfs |-> h, local |-> k,
                 data_dir |-> d.data_dir, app_data |-> d.app_data] :
                    l \in BOOLEAN, h \in {"up", "down"}, k \in {"up", "down"},
                    d \in DataDirs}
    /\ hdfsFs = EmptyFs
    /\ localFs \in {EmptyFs, LegacyFs}
    /\ now = 2 * TicksPerDay - 1
    /\ resp = Idle
    /\ handlers = NoHandlers
    /\ mirror = NoMirror

NextProcess ==
    \/ \E fault \in ConstructorFaults : StartProcess(fault)
    \/ \E record \in ProcessRecords : CallWriteRecord(record)
    \/ \E records \in IngestRequests, outage_at \in 0..MaxWrites :
          /\ outage_at <= Len(records)
          /\ \E midnight_at \in Midnights(records) :
                IngestWeather(records, outage_at, midnight_at)
    \/ \E city \in {{}, {<<"a">>}}, since \in SinceArgs, fault \in Faults(ActiveFs) :
          CallReadRecords(city, since, fault)
    \/ \E fault \in Faults(ActiveFs), faults \in LocalFaultsOf(possible_paths(localFs, env)) :
          CallListCities(fault, faults)
    \/ \E part \in {"hdfs", "local"} : Outage(part)
    \/ \E part \in {"hdfs", "local"} : Recover(part)
    \/ Return

SpecProcess == InitProcess /\ [][NextProcess]_vars

----------------------------------------------------------------------------
(* Claims about the process *)

\* C12: in every reachable state of the store, every record stored in the
\* file of partition (d, c) has a city field equal to c, the lower-cased key
\* in the file name.
C12_StoredCityEqualsFileKey ==
    \A p \in PathsOf(ActiveFs) :
        \A i \in 1..Len(ActiveFs.files[p]) :
            \A r \in json_loads(ActiveFs.files[p][i]) :
                "city" \in DOMAIN r /\ r["city"] = replace_jsonl(p[2])


\* C13: once the factory has returned the HDFS adapter, every read_records,
\* write_record and list_cities call made while the namenode is unreachable
\* raises an error, and no call reads or writes the local data directory.
C13_RemoteOutageSurfacesError ==
    (backend = "hdfs" /\ resp.op \in {"read_records", "write_record", "list_cities"}) =>
        /\ resp.env.hdfs = "down" => resp.raised # NoError
        /\ ~resp.local_read
        /\ localFs = resp.before.localFs


\* C14 as stated: get_storage_adapter returns the HDFS adapter exactly when
\* the hdfs package is importable and neither the construction of the
\* client, the probe client.status(".") nor the construction of the adapter
\* raises; in every other case it returns a Local adapter, and it raises no
\* error.
C14_FactoryFallsBackToLocal ==
    resp.op = "get_storage_adapter" =>
        /\ backend \in {"hdfs", "local"}
        /\ backend = "hdfs" <=>
              (resp.env.library /\ resp.env.hdfs = "up" /\ resp.fault = "none")
        /\ resp.raised = NoError

\* C14: get_storage_adapter returns the HDFS adapter exactly when the hdfs
\* package is importable and neither the construction of the client, the
\* probe nor the construction of the adapter raises, and then raises nothing,
\* whatever the local disk does; in every other case it constructs the Local
\* adapter: it returns it and raises nothing when the local data directory
\* can be created, and raises the OSError of os.makedirs, returning no
\* adapter, when it cannot.
C14_FactoryFallsBackOrRaises ==
    resp.op = "get_storage_adapter" =>
        LET remote == resp.env.library /\ resp.env.hdfs = "up" /\ resp.fault = "none"
        IN /\ backend = "hdfs" <=> remote
           /\ remote => resp.raised = NoError
           /\ (~remote /\ resp.env.local = "up") =>
                 backend = "local" /\ resp.raised = NoError
           /\ (~remote /\ resp.env.local = "down") =>
                 /\ backend = "none"
                 /\ \E x \in resp.raised : x.type = "OSError"
           /\ Stores = resp.before

\* the package is there, the probe raises and the local data directory
\* cannot be created: the OSError comes out and no adapter is returned
C14_Witness ==
    /\ resp.op = "get_storage_adapter"
    /\ resp.env.library
    /\ resp.env.hdfs = "down"
    /\ resp.fault = "none"
    /\ resp.env.local = "down"
    /\ backend = "none"
    /\ \E x \in resp.raised : x.type = "OSError"

\* the store of the adapter does not answer during the call in flight
BackendDown == IF backend = "hdfs" THEN resp.env.hdfs = "down" ELSE resp.env.local = "down"

\* C17 as stated: on both backends a write_record that meets an I/O failure
\* raises one error kind, StorageWriteError, that carries the cause.
C17_WriteFailureIsStorageWriteError ==
    (resp.op = "write_record" /\ BackendDown) =>
        /\ resp.raised # NoError
        /\ \A x \in resp.raised : x.type = "StorageWriteError" /\ x.cause # {}

\* C17: a write_record that meets an I/O failure never returns normally and
\* leaves the store as it was: the HDFS adapter raises a plain Exception
\* whose message and context carry the error of the client, the Local adapter
\* lets the OSError itself through; a write on a store that answers raises
\* nothing.
C17_WriteFailureRaises ==
    resp.op = "write_record" =>
        IF BackendDown
        THEN /\ resp.raised = (IF backend = "hdfs"
                               THEN Raised("Exception", {"ConnectionError"})
                               ELSE Raised("OSError", {}))
             /\ Stores = resp.before
        ELSE /\ resp.raised = NoError
             /\ Stores # resp.before

\* a write refused by a namenode that is down, over a store that holds data
C17_Witness ==
    /\ resp.op = "write_record"
    /\ backend = "hdfs"
    /\ resp.env.hdfs = "down"
    /\ hdfsFs # EmptyFs
    /\ resp.raised = Raised("Exception", {"ConnectionError"})
    /\ Stores = resp.before

\* the stored records of the partitions the read in flight could list
ReachableRecords ==
    UNION {UNION {json_loads(ActiveFs.files[p][i]) : i \in 1..Len(ActiveFs.files[p])} :
              p \in {q \in PathsOf(ActiveFs) :
                        ~(resp.fault.kind = "list_partition" /\ q[1] = resp.fault.day)}}

\* C18: when the backend is unreachable read_records raises an error; when
\* it returns, it returns every stored record that passes the filters, those
\* of one partition whose listing failed excepted: it never returns an empty
\* or partial list as if the store held no more.
C18_UnreachableReadRaises ==
    resp.op = "read_records" =>
        /\ BackendDown => resp.raised # NoError
        /\ resp.raised = NoError =>
              \A r \in ReachableRecords :
                  MatchesFilters(r, resp.city, resp.since) => r \in Range(resp.records)

----------------------------------------------------------------------------
(* Claims about the since filter of read_records *)

\* C15: read_records(since=s) returns no record whose timestamp parses as a
\* date-time earlier than s, a timestamp with a Z or an offset included, and
\* returns every stored record of the city asked for whose timestamp parses
\* as a date-time at or after s.
C15_SinceDropsEarlierRecords ==
    (resp.op = "read_records" /\ resp.since # {}) =>
        /\ \A i \in 1..Len(resp.records) :
              HasDate(resp.records[i]) =>
                  resp.records[i]["timestamp"].t >= The(resp.since)
        /\ \A r \in StoredRecords(ActiveFs) :
              ( /\ HasDate(r)
                /\ r["timestamp"].t >= The(resp.since)
                /\ MatchesFilters(r, resp.city, {}) ) => r \in Range(resp.records)

\* C16: a stored record whose timestamp is missing or does not parse is
\* returned by every read_records whose city filter it passes, with a since
\* filter as without one.
C16_UndatedRecordsKept ==
    resp.op = "read_records" =>
        \A r \in StoredRecords(ActiveFs) :
            (r # <<>> /\ ~HasDate(r) /\ MatchesFilters(r, resp.city, {}))
                => r \in Range(resp.records)

\* a read with a since filter returns a record whose timestamp does not
\* parse and one that has no timestamp
C16_Witness ==
    /\ resp.op = "read_records"
    /\ resp.since # {}
    /\ \E i \in 1..Len(resp.records) :
          /\ "timestamp" \in DOMAIN resp.records[i]
          /\ resp.records[i]["timestamp"] = BadTs
    /\ \E i \in 1..Len(resp.records) : "timestamp" \notin DOMAIN resp.records[i]

----------------------------------------------------------------------------
(* Claims about the data a forecast needs *)

\* the days of the records the forecast in flight read, by metric: the last
\* lookback days that have a record, and those of them with a numeric sample
ForecastWindow == Range(last(sorted_dates(DOMAIN daily_map(resp.records)), resp.lookback))
DaysWithSamples(metric) ==
    {d \in ForecastWindow : Len(daily_map(resp.records)[d][metric]) > 0}
SampleMean(metric) ==
    LET d == CHOOSE x \in DaysWithSamples(metric) : TRUE
    IN {round2(mean(daily_map(resp.records)[d][metric]))}

\* the metric has one value on every forecast day
Repeats(body, field, value) ==
    \A i \in 1..Len(body.data) : body.data[i][field] = value

Metrics == {<<"temp", "tempC">>, <<"humid", "humidity">>, <<"wind", "windKph">>}

\* C19 as stated: when the records of the lookback window are of one day, the
\* forecast is returned, and every forecast day repeats that day's mean of
\* each metric that has samples.
C19_OneDayForecastRepeatsMean ==
    (resp.op = "get_forecast" /\ resp.reads = 1 /\ Cardinality(ForecastWindow) = 1) =>
        /\ resp.status = 200
        /\ \A body \in resp.body : \A m \in Metrics :
              DaysWithSamples(m[1]) # {} => Repeats(body, m[2], SampleMean(m[1]))

\* C19: when the records of the lookback window are of one day, the forecast
\* operation answers 400 "Need at least two days of data for forecasting"
\* and returns no forecast; in a forecast that is returned, a metric with
\* samples on one day only repeats that day's mean on every forecast day.
C19_OneDayIsInsufficient ==
    (resp.op = "get_forecast" /\ resp.reads = 1) =>
        /\ Cardinality(ForecastWindow) = 1 =>
              /\ resp.status = 400
              /\ resp.detail = "Need at least two days of data for forecasting"
              /\ resp.body = {}
        /\ \A body \in resp.body : \A m \in Metrics :
              Cardinality(DaysWithSamples(m[1])) = 1
                  => Repeats(body, m[2], SampleMean(m[1]))

\* one day of temperatures, and the answer is the 400
C19_Witness ==
    /\ resp.op = "get_forecast"
    /\ resp.reads = 1
    /\ Cardinality(ForecastWindow) = 1
    /\ DaysWithSamples("temp") # {}
    /\ resp.status = 400
    /\ resp.body = {}

\* C20: generate_forecast answers 404 exactly when it read no record or no
\* record it read has a timestamp that parses, 400 exactly when some record
\* has one and each of the three daily series has fewer than two days, and it
\* returns a forecast exactly when one of the series has two days or more.
C20_ForecastErrorCases ==
    (resp.op = "get_forecast" /\ resp.reads = 1) =>
        LET enough == \E m \in Metrics : Cardinality(DaysWithSamples(m[1])) >= 2
        IN /\ resp.status \in {200, 400, 404}
           /\ resp.status = 404 <=> ForecastWindow = {}
           /\ resp.status = 400 <=> (ForecastWindow # {} /\ ~enough)
           /\ resp.status = 200 <=> enough
           /\ resp.body # {} <=> resp.status = 200
           /\ resp.status = 400 =>
                 resp.detail = "Need at least two days of data for forecasting"

\* the records read are of more days than the lookback, two of them with a
\* temperature; in the last lookback days every metric has one day, and the
\* answer is the 400
C20_Witness ==
    /\ resp.op = "get_forecast"
    /\ resp.reads = 1
    /\ Cardinality(DOMAIN daily_map(resp.records)) > resp.lookback
    /\ Cardinality({d \in DOMAIN daily_map(resp.records) :
                        Len(daily_map(resp.records)[d]["temp"]) > 0}) >= 2
    /\ \A m \in Metrics : Cardinality(DaysWithSamples(m[1])) = 1
    /\ resp.status = 400
    /\ resp.body = {}

----------------------------------------------------------------------------
(* Claims about the forecast that is returned *)

\* the latest day of the records the forecast in flight read
LastDataDay == CHOOSE d \in ForecastWindow : \A e \in ForecastWindow : e <= d

SampledSeries(metric) ==
    LET sampled == sorted_dates(DaysWithSamples(metric))
    IN [i \in 1..Len(sampled) |->
           round2(mean(daily_map(resp.records)[sampled[i]][metric]))]

\* C22: in a forecast that is returned, each metric is extrapolated from the
\* daily means of the days that have a numeric sample of it, a day without
\* one adding no value (not a zero), and a metric without a numeric sample on
\* any day of the lookback is null on every forecast day while the other
\* metrics are forecast.
C22_MissingSamplesAreNotZero ==
    (resp.op = "get_forecast" /\ resp.status = 200) =>
        \A body \in resp.body : \A m \in Metrics :
            /\ [i \in 1..Len(body.data) |-> body.data[i][m[2]]]
                  = linear_forecast(SampledSeries(m[1]), resp.days)
            /\ DaysWithSamples(m[1]) = {} => Repeats(body, m[2], {})

\* the records read are of more days than the lookback; temperatures on
\* every day of the window, humidity on some of its days only, wind on a
\* day before the window only: wind is null and the two others are forecast
C22_Witness ==
    /\ resp.op = "get_forecast"
    /\ resp.status = 200
    /\ Cardinality(DOMAIN daily_map(resp.records)) > resp.lookback
    /\ \E d \in DOMAIN daily_map(resp.records) :
          Len(daily_map(resp.records)[d]["wind"]) > 0
    /\ DaysWithSamples("wind") = {}
    /\ DaysWithSamples("temp") = ForecastWindow
    /\ DaysWithSamples("humid") # {}
    /\ DaysWithSamples("humid") # ForecastWindow
    /\ \A body \in resp.body :
          /\ Repeats(body, "windKph", {})
          /\ \A i \in 1..Len(body.data) :
                body.data[i]["tempC"] # {} /\ body.data[i]["humidity"] # {}

----------------------------------------------------------------------------
(* Claims about the statistics and the history of a non-empty record set *)

\* the positions of the records read that carry a numeric value of the metric
Sampled(key) ==
    {i \in 1..Len(resp.records) :
        key \in DOMAIN resp.records[i] /\ resp.records[i][key] # {}}

Sample(key, i) == float(The(resp.records[i][key]))

RECURSIVE SumOver(_, _)
SumOver(key, positions) ==
    IF positions = {} THEN Zero
    ELSE LET i == CHOOSE x \in positions : TRUE
         IN RAdd(Sample(key, i), SumOver(key, positions \ {i}))

\* the mean of the numeric values of the metric, null when there is none
MeanOrNull(key) ==
    IF Sampled(key) = {} THEN {}
    ELSE {round2(RDiv(SumOver(key, Sampled(key)), float(Cardinality(Sampled(key)))))}

\* C23: statistics over a non-empty record set answer without an error;
\* record_count is the number of records read; the mean of each metric is
\* the mean of the numeric values of that metric only, null when no record
\* has one; the minimum and the maximum of the temperature are those of its
\* numeric values, null when there is none.
C23_StatsOfMissingMetricAreNull ==
    (resp.op = "get_stats" /\ resp.records # <<>>) =>
        /\ resp.status = 200
        /\ resp.body.record_count = Len(resp.records)
        /\ resp.body.avg_tempC = MeanOrNull("tempC")
        /\ resp.body.avg_humidity = MeanOrNull("humidity")
        /\ resp.body.avg_windKph = MeanOrNull("windKph")
        /\ IF Sampled("tempC") = {}
           THEN resp.body.min_tempC = {} /\ resp.body.max_tempC = {}
           ELSE /\ \E i \in Sampled("tempC") : resp.body.min_tempC = {round2(Sample("tempC", i))}
                /\ \E i \in Sampled("tempC") : resp.body.max_tempC = {round2(Sample("tempC", i))}
                /\ \A i \in Sampled("tempC") :
                      /\ ~RLess(Sample("tempC", i), The(resp.body.min_tempC))
                      /\ ~RLess(The(resp.body.max_tempC), Sample("tempC", i))

\* records with temperatures and without any wind value: the wind mean is
\* null, the temperature mean is not, and every record is counted
C23_Witness ==
    /\ resp.op = "get_stats"
    /\ Len(resp.records) >= 2
    /\ Sampled("windKph") = {}
    /\ Sampled("tempC") # {}
    /\ Cardinality(Sampled("tempC")) < Len(resp.records)
    /\ resp.body.avg_windKph = {}
    /\ resp.body.avg_tempC # {}
    /\ resp.body.record_count = Len(resp.records)

\* C24: the history operation returns the records ordered by timestamp
\* string, descending: of two adjacent returned records the first one's
\* timestamp is greater than or equal to the second one's; and the returned
\* records are, with their multiplicities, the ones read_records returned for
\* the same city and window.
C24_HistoryDescendingByTimestamp ==
    resp.op = "get_history" =>
        LET returned == resp.body.records
        IN /\ resp.status = 200
           /\ \A i \in 1..(Len(returned) - 1) :
                 ~KeyLess(timestamp_key(returned[i]), timestamp_key(returned[i + 1]))
           /\ Len(returned) = Len(resp.records)
           /\ \A r \in Range(returned) \cup Range(resp.records) :
                 Count(returned, r) = Count(resp.records, r)

\* three records read in an order that is not the descending one, among them
\* one without a timestamp, and returned in another order
C24_Witness ==
    /\ resp.op = "get_history"
    /\ Len(resp.records) = 3
    /\ resp.body.records # resp.records
    /\ \E i \in 1..2 :
          KeyLess(timestamp_key(resp.records[i]), timestamp_key(resp.records[i + 1]))
    /\ \E i \in 1..3 : "timestamp" \notin DOMAIN resp.records[i]
    /\ \E i \in 1..2 :
          KeyLess(timestamp_key(resp.body.records[i + 1]), timestamp_key(resp.body.records[i]))

----------------------------------------------------------------------------
(* The same write_record calls on a LocalAdapter and on an HDFSAdapter whose *)
(* name node answers, both over stores that start empty.                     *)

\* adapter.write_record(record) on both adapters
WriteBoth(record) ==
    /\ resp = Idle
    /\ TotalLines(localFs) < MaxWrites
    /\ \E later \in Laters(now) :
          /\ localFs' = Local_write_record(localFs, record, now)
          /\ hdfsFs' = HDFS_write_record(hdfsFs, record, now, later)
          /\ now' = later
          /\ resp' = [op |-> "write_record", record |-> record, clock |-> now,
                      later |-> later,
                      local_path |-> Local_get_file_path(record, now),
                      hdfs_path |-> HDFS_get_file_path(record, now),
                      before |-> [localFs |-> localFs, hdfsFs |-> hdfsFs]]
    /\ UNCHANGED <<backend, handlers, mirror, env>>

\* local.read_records(city, since), with the order in which the local file
\* system lists the directories
ReadLocal(city, since) ==
    /\ resp = Idle
    /\ \E listing \in Listings(localFs) :
          resp' = [op |-> "read_local", city |-> city, since |-> since,
                   local |-> Local_read_records(localFs, city, since, listing)]
    /\ UNCHANGED <<backend, localFs, hdfsFs, now, handlers, mirror, env>>

\* then hdfs.read_records(city, since) with the same arguments, with the
\* order in which the name node lists the directories
ReadRemote ==
    /\ resp.op = "read_local"
    /\ \E listing \in Listings(hdfsFs) :
          resp' = [op |-> "read_records", city |-> resp.city, since |-> resp.since,
                   local |-> resp.local,
                   hdfs |-> HDFS_read_records(hdfsFs, resp.city, resp.since, listing)]
    /\ UNCHANGED <<backend, localFs, hdfsFs, now, handlers, mirror, env>>

\* adapter.list_cities() on both adapters; the data directories the HDFS
\* adapter also looks at do not exist, or the first one is the directory the
\* LocalAdapter writes, or all three are (backend/ in /app, DATA_DIR not set)
ListCitiesBoth ==
    /\ resp = Idle
    /\ \E paths \in {possible_paths(EmptyFs, env), possible_paths(localFs, env),
                      <<localFs, localFs, localFs>>} :
          resp' = [op |-> "list_cities",
                   local |-> Local_list_cities(localFs),
                   hdfs |-> HDFS_list_cities(hdfsFs, paths, NoLocalFaults)]
    /\ UNCHANGED <<backend, localFs, hdfsFs, now, handlers, mirror, env>>

InitBoth ==
    /\ env = NormalEnv
    /\ backend = "both"
    /\ hdfsFs = EmptyFs
    /\ localFs = EmptyFs
    /\ now \in {TicksPerDay, MaxNow}
    /\ resp = Idle
    /\ handlers = NoHandlers
    /\ mirror = NoMirror

NextBoth ==
    \/ \E record \in StorageRecords : WriteBoth(record)
    \/ \E city \in CityArgs, since \in SinceArgs : ReadLocal(city, since)
    \/ ReadRemote
    \/ ListCitiesBoth
    \/ Return
    \/ Tick

SpecBoth == InitBoth /\ [][NextBoth]_vars

LinesAt(fs, path) == IF path \in PathsOf(fs) THEN fs.files[path] ELSE <<>>

SameMultiset(s, t) ==
    /\ Len(s) = Len(t)
    /\ \A x \in Range(s) \cup Range(t) : Count(s, x) = Count(t, x)

\* C25: after the same write_record calls on both adapters, read_records
\* with the same city and since returns the same records with the same
\* multiplicities on both, list_cities returns the same list on both, and
\* each write puts the line of its record at the end of the file of the same
\* date partition and the same file name on both.
C25_LocalAndRemoteEquivalent ==
    /\ resp.op = "read_records" => SameMultiset(resp.local, resp.hdfs)
    /\ resp.op = "list_cities" => resp.local = resp.hdfs
    /\ resp.op = "write_record" =>
          /\ resp.local_path = resp.hdfs_path
          /\ resp.local_path \in PathsOf(localFs)
          /\ resp.hdfs_path \in PathsOf(hdfsFs)
          /\ localFs.files[resp.local_path]
               = Append(LinesAt(resp.before.localFs, resp.local_path), json_dumps(resp.record))
          /\ hdfsFs.files[resp.hdfs_path]
               = Append(LinesAt(resp.before.hdfsFs, resp.hdfs_path), json_dumps(resp.record))

\* three records in two files of one partition, read back in different
\* orders by the two adapters
C25_Witness ==
    /\ resp.op = "read_records"
    /\ Len(resp.local) = 3
    /\ resp.local # resp.hdfs
    /\ Cardinality(PathsOf(hdfsFs)) = 2
    /\ Cardinality(hdfsFs.dirs) = 1

----------------------------------------------------------------------------
(* Claims about the cities listed and about the ingestion of a batch *)

\* the city a written record counts for: its city value in lower case,
\* 'unknown' when it has none
WrittenCity(record) == lower(get(record, "city", <<"unknown">>))

\* C26: after any sequence of write_record calls on a store that started
\* empty (no local data directory holds a file), list_cities() is the
\* ascending, duplicate-free list of the lower-cased city values of all
\* records written, 'unknown' standing for a record without a city.
C26_ListCitiesAreWrittenCities ==
    ( /\ resp.op = "list_cities"
      /\ backend = "hdfs" =>
            localFs = EmptyFs /\ env.data_dir = EmptyFs /\ env.app_data = EmptyFs )
    => resp.cities = sorted({WrittenCity(r) : r \in StoredRecords(ActiveFs)})

\* the store of the active adapter before the request in flight
StoreBefore == IF backend = "hdfs" THEN resp.before.hdfsFs ELSE resp.before.localFs

\* the number of the write of the batch in flight that fails, 0 when none
\* does: the first one when the store did not answer at the start, else the
\* one before which it stopped answering
FailedWrite ==
    IF Len(resp.records) = 0 THEN 0
    ELSE IF BackendDown THEN 1
    ELSE resp.outage_at

\* C27: ingest writes the records of a batch one by one in request order and
\* takes nothing back: a batch of n >= 1 records whose writes all succeed is
\* answered with count n and leaves exactly n more lines, each record at the
\* end of its file in request order; when the k-th write fails the answer is
\* a 500 error, the first k - 1 records are stored and no later one is; an
\* empty batch is answered with a 400 error and nothing is written.
C27_IngestWritesInOrderWithoutRollback ==
    resp.op = "ingest_weather" =>
        LET n == Len(resp.records)
            k == FailedWrite
        IN /\ n = 0 => resp.status = 400 /\ ActiveFs = StoreBefore
           /\ (n >= 1 /\ k = 0) =>
                 /\ resp.status = 200
                 /\ resp.count = n
                 /\ TotalLines(ActiveFs) = TotalLines(StoreBefore) + n
                 /\ ActiveFs = write_all(StoreBefore, resp.records, resp.clocks)
           /\ k >= 1 =>
                 /\ resp.status = 500
                 /\ TotalLines(ActiveFs) = TotalLines(StoreBefore) + (k - 1)
                 /\ ActiveFs = write_all(StoreBefore, SubSeq(resp.records, 1, k - 1),
                                         SubSeq(resp.clocks, 1, k - 1))

\* a batch of three records whose second write fails: 500, and one line more
C27_Witness ==
    /\ resp.op = "ingest_weather"
    /\ Len(resp.records) = 3
    /\ FailedWrite = 2
    /\ resp.status = 500
    /\ TotalLines(ActiveFs) = TotalLines(StoreBefore) + 1
    /\ json_dumps(resp.records[1]) \in
          UNION {Range(ActiveFs.files[p]) : p \in PathsOf(ActiveFs)}

====
